---- MODULE Spec2Model ----
(***************************************************************************)
(* Model of the biome-grid generator of project_fluorite:                  *)
(*   biome/biome.py        Biome (range validation, matches)               *)
(*   map/noise_layer.py    BaseNoiseLayer and its four channel subclasses  *)
(*   biome/biome_map.py    BiomeMap (classification of the grid)           *)
(*   ui/components/resource_filter.py  ResourceFilter (resource counts)    *)
(*                                                                         *)
(* Floats of [0,1] are fixed-point integers: the float v is the integer    *)
(* v * Unit, so 0.5 is HalfUnit and 1.0 is Unit.                           *)
(***************************************************************************)
EXTENDS Integers, Sequences, FiniteSets, TLC

\* ------------------------------------------------------------------ bounds
\* Resolution of the fixed-point grid: 0.5 is HalfUnit steps above 0.
HalfUnit == 2
\* Longest biome catalog handed to a classifier.
MaxCatalog == 2
\* Largest seed random.randint draws (the code draws from 0..100000).
MaxSeed == 1
\* Grid size of a BiomeMap (MapConfig.width / MapConfig.height, scaled down).
MapWidth == 3
MapHeight == 2
\* Largest width / height handed to a noise layer constructor on its own.
MaxDim == 2
\* Worker threads the loading screen may start in one run.
MaxThreads == 2
\* events passed to one BiomeMap
MaxEvents == 3

Unit == 2 * HalfUnit

\* None of Python, for a biome reference (catalog positions start at 1).
None == 0

Min(a, b) == IF a < b THEN a ELSE b
Max(a, b) == IF a > b THEN a ELSE b

\* ------------------------------------------------------------------ Biome
Axes == {"height", "humidity", "temperature", "mystical"}
\* Order of BiomeProperties.__dict__ (dataclass field order).
AxisOrder == <<"height", "humidity", "temperature", "mystical">>

Full == <<0, Unit>>
Low == <<0, HalfUnit>>
High == <<HalfUnit, Unit>>

\* A constructed Biome: its name, its four (min, max) ranges, its resource.
MkBiome(name, h, hu, t, m, res) ==
    [name |-> name, height |-> h, humidity |-> hu, temperature |-> t,
     mystical |-> m, resource_type |-> res]

\* Biome definitions a catalog file may hold.  Meadow repeats the ranges of
\* Plains under another name; Wilds spans [0,1] on every axis.
BiomePool ==
    { MkBiome("Wilds", Full, Full, Full, Full, "wood"),
      MkBiome("Plains", Low, Full, Full, Full, "wood"),
      MkBiome("Meadow", Low, Full, Full, Full, "herb"),
      MkBiome("Peaks", High, Full, Full, Full, "stone"),
      MkBiome("Marsh", Low, Low, Low, Low, "herb"),
      MkBiome("Volcano", High, High, High, High, "stone") }

RECURSIVE SeqsUpTo(_, _)
SeqsUpTo(S, n) ==
    IF n = 0 THEN { <<>> }
    ELSE LET shorter == SeqsUpTo(S, n - 1)
         IN  shorter \cup { Append(c, b) : c \in shorter, b \in S }

\* Catalogs: ordered lists of distinct biomes (names are unique).
Catalogs ==
    { c \in SeqsUpTo(BiomePool, MaxCatalog) :
        \A i, j \in 1..Len(c) : i # j => c[i].name # c[j].name }

Values == 0..Unit
Samples == [Axes -> Values]

\* lo <= v <= hi, the chained comparison of the classifier and of matches().
InRangeHalfOpen(range, v) == range[1] <= v /\ v < range[2]
InRange(range, v) == range[1] <= v /\ v <= range[2]

\* Number of axes whose sampled value lies in the biome's range: the
\* numerator of `score`, whose denominator is ScoreDen.
ScoreDen == 4
AxisHitsCopyPaste(biome, s) ==
    (IF InRange(biome.height, s.height) THEN 1 ELSE 0) +
    (IF InRange(biome.height, s.humidity) THEN 1 ELSE 0) +
    (IF InRange(biome.temperature, s.temperature) THEN 1 ELSE 0) +
    (IF InRange(biome.mystical, s.mystical) THEN 1 ELSE 0)
AxisHits(biome, s) ==
    (IF InRange(biome.height, s.height) THEN 1 ELSE 0) +
    (IF InRange(biome.humidity, s.humidity) THEN 1 ELSE 0) +
    (IF InRange(biome.temperature, s.temperature) THEN 1 ELSE 0) +
    (IF InRange(biome.mystical, s.mystical) THEN 1 ELSE 0)

\* `if score > best_score`
ReplacesOnTie(score, best_score) == score >= best_score
Replaces(score, best_score) == score > best_score

\* `best_score >= 0.5`
AcceptsAboveHalf(best_score) == 2 * best_score > ScoreDen
Accepts(best_score) == 2 * best_score >= ScoreDen

\* The for loop of _find_matching_biome from catalog position i on.
RECURSIVE FindLoop(_, _, _, _, _)
FindLoop(cat, s, i, best_match, best_score) ==
    IF i > Len(cat) THEN <<best_match, best_score>>
    ELSE LET score == AxisHits(cat[i], s)
         IN  IF Replaces(score, best_score)
             THEN FindLoop(cat, s, i + 1, i, score)
             ELSE FindLoop(cat, s, i + 1, best_match, best_score)

\* BiomeMap._find_matching_biome: the catalog position of the result, or None.
\* `return best_match if best_score >= 0.5 else None`
Return(best_match, best_score) ==
    IF Accepts(best_score) THEN best_match ELSE None
ReturnOf(r) == Return(r[1], r[2])
FindMatchingBiome(cat, s) == ReturnOf(FindLoop(cat, s, 1, None, 0))

\* Biome.matches: all four values lie in the biome's closed ranges.
Matches(biome, s) ==
    /\ InRange(biome.height, s.height)
    /\ InRange(biome.humidity, s.humidity)
    /\ InRange(biome.temperature, s.temperature)
    /\ InRange(biome.mystical, s.mystical)

\* The for loop of MapManager._find_matching_biome from catalog position i
\* on: the position of the biome it returns, or None when it falls through.
RECURSIVE MapFindLoopLast(_, _, _)
MapFindLoopLast(cat, s, i) ==
    IF i > Len(cat) THEN None
    ELSE LET later == MapFindLoopLast(cat, s, i + 1)
         IN  IF later # None THEN later
             ELSE IF Matches(cat[i], s) THEN i ELSE None
RECURSIVE MapFindLoop(_, _, _)
MapFindLoop(cat, s, i) ==
    IF i > Len(cat) THEN None
    ELSE IF Matches(cat[i], s) THEN i
    ELSE MapFindLoop(cat, s, i + 1)

\* MapManager._find_matching_biome; `choice` is the position
\* random.choice(self._biomes) draws when the loop falls through.
MapFindMatchingBiome(cat, s, choice) ==
    IF MapFindLoop(cat, s, 1) # None THEN MapFindLoop(cat, s, 1) ELSE choice

\* Bounds a caller may hand to the Biome constructor: below 0, the two ends
\* of [0,1], and above 1.
BoundValues == {-1, 0, Unit, Unit + 1}
BiomeArgs == [Axes -> BoundValues \X BoundValues]

\* The two checks of _validate_properties on one (min_val, max_val):
\* "" when the range passes, else the message of the ValueError raised.
RangeErrorNoOrder(min_val, max_val) ==
    IF ~(0 <= min_val /\ min_val <= Unit /\ 0 <= max_val /\ max_val <= Unit)
    THEN "values must be between 0 and 1"
    ELSE ""
RangeError(min_val, max_val) ==
    IF min_val > max_val THEN "Invalid range"
    ELSE IF ~(0 <= min_val /\ min_val <= Unit /\ 0 <= max_val /\ max_val <= Unit)
    THEN "values must be between 0 and 1"
    ELSE ""

\* The for loop of _validate_properties from property i on: the first error.
RECURSIVE ValidateProperties(_, _)
ValidateProperties(props, i) ==
    IF i > Len(AxisOrder) THEN ""
    ELSE LET r == props[AxisOrder[i]]
             e == RangeError(r[1], r[2])
         IN  IF e # "" THEN e ELSE ValidateProperties(props, i + 1)

\* ------------------------------------------------------------ noise layers
Channels == {"Height", "Humidity", "Temperature", "Mystical"}

\* NoiseParameters of each subclass; persistence, lacunarity and
\* scale_factor are in tenths (0.8 is 8, 3.6 is 36).  HeightNoiseLayer and
\* HumidityNoiseLayer leave scale_factor at the dataclass default.
DefaultScaleFactor == 30
NoiseParameters(cls) ==
    CASE cls = "Height" ->
           [octaves |-> 2, persistence |-> 8, lacunarity |-> 20,
            scale_factor |-> DefaultScaleFactor]
      [] cls = "Humidity" ->
           [octaves |-> 4, persistence |-> 5, lacunarity |-> 20,
            scale_factor |-> DefaultScaleFactor]
      [] cls = "Temperature" ->
           [octaves |-> 4, persistence |-> 5, lacunarity |-> 20,
            scale_factor |-> 36]
      [] cls = "Mystical" ->
           [octaves |-> 6, persistence |-> 3, lacunarity |-> 20,
            scale_factor |-> 90]

Seeds == 0..MaxSeed
Raws == (0 - Unit)..Unit

\* noise.pnoise2 of the external `noise` library, called at the point
\* (nx / den, ny / den): a fixed function of its arguments whose values
\* span [-1, 1].  Which function is immaterial to the layer; this one
\* takes every value of Raws over the seeds and cells of the model.
Pnoise2(nx, ny, den, octaves, persistence, lacunarity) ==
    ((7 * nx + 3 * ny + den * den + octaves + persistence + lacunarity)
        % (2 * Unit + 1)) - Unit

\* BaseNoiseLayer._transform_noise_value
TransformNoClamp(value) ==
    LET spread_value == value * 2
    IN  (spread_value + Unit) \div 2
TransformNoiseValue(value) ==
    LET spread_value == value * 2
        normalized_value == (spread_value + Unit) \div 2
    IN  Max(0, Min(Unit, normalized_value))

\* range(n) as the 1-based positions of a Python list of that length.
Range(n) == 1..Max(n, 0)

\* BaseNoiseLayer._generate_noise: the list of `width` columns of `height`
\* values each (Python's map[x][y] is map[x + 1][y + 1] here), or the
\* ZeroDivisionError of dividing by scale * scale_factor = 0 at the first
\* cell.
GenerateNoiseRowMajor(width, height, scale, seed, params) ==
    IF width > 0 /\ height > 0 /\ scale * params.scale_factor = 0
    THEN [raised |-> "ZeroDivisionError", map |-> <<>>]
    ELSE [raised |-> "",
          map |-> [y \in Range(height) |-> [x \in Range(width) |->
                     TransformNoiseValue(
                         Pnoise2((x - 1) + seed, (y - 1) + seed,
                                 scale * params.scale_factor,
                                 params.octaves, params.persistence,
                                 params.lacunarity))]]]
GenerateNoise(width, height, scale, seed, params) ==
    IF width > 0 /\ height > 0 /\ scale * params.scale_factor = 0
    THEN [raised |-> "ZeroDivisionError", map |-> <<>>]
    ELSE [raised |-> "",
          map |-> [x \in Range(width) |-> [y \in Range(height) |->
                     TransformNoiseValue(
                         Pnoise2((x - 1) + seed, (y - 1) + seed,
                                 scale * params.scale_factor,
                                 params.octaves, params.persistence,
                                 params.lacunarity))]]]

\* A noise layer object: the fields BaseNoiseLayer.__init__ sets.
MkLayer(cls, width, height, scale, seed, map) ==
    [exists |-> TRUE, cls |-> cls, width |-> width, height |-> height,
     scale |-> scale, seed |-> seed, has_map |-> TRUE, map |-> map]
NoLayer ==
    [exists |-> FALSE, cls |-> "Height", width |-> 0, height |-> 0,
     scale |-> 0, seed |-> 0, has_map |-> FALSE, map |-> <<>>]

\* `0 <= x < self._width and 0 <= y < self._height`
InBounds(l, x, y) ==
    0 <= x /\ x < l.width /\ 0 <= y /\ y < l.height

\* `self._map[x][y]`: the value, or the IndexError of a list too short.
Subscript(map, x, y) ==
    IF (x + 1) \in DOMAIN map /\ (y + 1) \in DOMAIN map[x + 1]
    THEN [raised |-> "", value |-> map[x + 1][y + 1]]
    ELSE [raised |-> "IndexError", value |-> 0]

\* BaseNoiseLayer.get on a layer whose map is set: the bounds check, then
\* the subscript.
LayerGetNaive(l, x, y) ==
    IF ~InBounds(l, x, y)
    THEN [raised |-> "ValueError", value |-> 0]
    ELSE LET value == Subscript(l.map, x, y)
         IN  [raised |-> value.raised, value |-> (value.value + Unit) \div 2]
LayerGet(l, x, y) ==
    IF ~InBounds(l, x, y)
    THEN [raised |-> "ValueError", value |-> 0]
    ELSE Subscript(l.map, x, y)

\* BaseNoiseLayer.get, its effect on the layer: `if self._map is None`
\* regenerates the map of a layer that has none, and nothing else is written.
LayerAfterGetReseeding(l) ==
    [l EXCEPT !.seed = (l.seed + 1) % (MaxSeed + 1),
              !.map = GenerateNoise(l.width, l.height, l.scale,
                                    (l.seed + 1) % (MaxSeed + 1),
                                    NoiseParameters(l.cls)).map]
LayerAfterGet(l) ==
    IF l.has_map THEN l
    ELSE [l EXCEPT !.has_map = TRUE,
                   !.map = GenerateNoise(l.width, l.height, l.scale, l.seed,
                                         NoiseParameters(l.cls)).map]

\* --------------------------------------------------------------- BiomeMap
\* scale=... of the four layers BiomeMap.__init__ builds.
ChannelScale ==
    [Height |-> 20, Humidity |-> 15, Temperature |-> 25, Mystical |-> 30]

\* MapConfig.tile_size
TileSize == 16
\* `margin` and the selector width of update_screen_size / _initialize_ui_components
Margin == 10
SelectorWidth == 210
\* WindowConfig: the window size BiomeMap.__init__ reads from Config().
WindowSize == <<1280, 720>>

\* (width, height) handed to each of the four layers by BiomeMap.__init__.
LayerSizeSwapped(dims) == <<dims.grid_height, dims.grid_width>>
LayerSize(dims) == <<dims.grid_width, dims.grid_height>>

\* The four .get(x, y) calls of _generate_biome_grid for one cell.
SampleAtCopyPaste(nm, x, y) ==
    [height |-> LayerGet(nm["Height"], x, y),
     humidity |-> LayerGet(nm["Height"], x, y),
     temperature |-> LayerGet(nm["Temperature"], x, y),
     mystical |-> LayerGet(nm["Mystical"], x, y)]
SampleAt(nm, x, y) ==
    [height |-> LayerGet(nm["Height"], x, y),
     humidity |-> LayerGet(nm["Humidity"], x, y),
     temperature |-> LayerGet(nm["Temperature"], x, y),
     mystical |-> LayerGet(nm["Mystical"], x, y)]

\* The nested loops of _generate_biome_grid from cell number k on (row y =
\* k div grid_width, column x = k mod grid_width), writing into grid g in
\* place; a get that raises ends the loops with the cells written so far.
\* FillCell is the loop body, given the four values `got` sampled for cell k.
RECURSIVE FillGrid(_, _, _, _, _)
RECURSIVE FillCell(_, _, _, _, _, _)
FillCell(cat, nm, dims, g, k, got) ==
    IF \E a \in Axes : got[a].raised # ""
    THEN [raised |-> (CHOOSE e \in {got[a].raised : a \in Axes} : e # ""),
          grid |-> g]
    ELSE FillGrid(cat, nm, dims,
                  [g EXCEPT ![(k \div dims.grid_width) + 1][(k % dims.grid_width) + 1] =
                      FindMatchingBiome(cat, [a \in Axes |-> got[a].value])],
                  k + 1)
FillGrid(cat, nm, dims, g, k) ==
    IF k >= dims.grid_width * dims.grid_height
    THEN [raised |-> "", grid |-> g]
    ELSE FillCell(cat, nm, dims, g, k,
                  SampleAt(nm, k % dims.grid_width, k \div dims.grid_width))

\* list(set(biome.resource_type for biome in self._biomes)), as a set.
ResourceTypes(cat) == { cat[i].resource_type : i \in 1..Len(cat) }

\* The loops of ResourceFilter.update_resource_stats from cell number k on.
\* CountCell is the loop body for the cell value `biome`.
RECURSIVE CountLoop(_, _, _, _, _)
CountCellEveryCell(biome, cat, counts, total) ==
    IF biome # None
    THEN [resource_counts |-> [counts EXCEPT ![cat[biome].resource_type] = @ + 1],
          total_biomes |-> total + 1]
    ELSE [resource_counts |-> counts, total_biomes |-> total + 1]
CountCell(biome, cat, counts, total) ==
    IF biome # None
    THEN [resource_counts |-> [counts EXCEPT ![cat[biome].resource_type] = @ + 1],
          total_biomes |-> total + 1]
    ELSE [resource_counts |-> counts, total_biomes |-> total]
CountNext(cat, g, k, st) ==
    CountLoop(cat, g, k, st.resource_counts, st.total_biomes)
CountLoop(cat, g, k, counts, total) ==
    IF Len(g) = 0 \/ k >= Len(g[1]) * Len(g)
    THEN [resource_counts |-> counts, total_biomes |-> total]
    ELSE CountNext(cat, g, k + 1,
                   CountCell(g[(k \div Len(g[1])) + 1][(k % Len(g[1])) + 1],
                             cat, counts, total))

\* ResourceFilter.update_resource_stats(biome_grid)
UpdateResourceStats(cat, g) ==
    CountLoop(cat, g, 0, [r \in ResourceTypes(cat) |-> 0], 0)

\* The percentage ResourceFilter.draw prints for one resource type:
\* `(count / self.total_biomes * 100) if self.total_biomes > 0 else 0`,
\* as the exact fraction num/den; `raised` names the exception of the
\* division, "" when there is none.
PercentageNoGuard(count, total) ==
    IF total = 0
    THEN [raised |-> "ZeroDivisionError", num |-> 0, den |-> 1]
    ELSE [raised |-> "", num |-> count * 100, den |-> total]
Percentage(count, total) ==
    IF total > 0
    THEN [raised |-> "", num |-> count * 100, den |-> total]
    ELSE [raised |-> "", num |-> 0, den |-> 1]

\* BiomeMap._center_map: the two offsets.
CenterMap(dims) ==
    LET total_width == dims.grid_width * dims.cell_size
        total_height == dims.grid_height * dims.cell_size
    IN  [offset_x |-> (dims.screen_width - total_width) \div 2,
         offset_y |-> (dims.screen_height - total_height) \div 2]

\* --------------------------------------------------------------- variables
VARIABLES
    find_biomes,    \* the catalog (self._biomes) handed to the classifier
    find_args,      \* the sampled 4-tuple passed to _find_matching_biome
    find_pc,        \* "call" before the call, "done" after it returned
    find_ret,       \* the value returned (a catalog position or None)
    biome_args,     \* the four (min, max) pairs passed to Biome(...)
    biome_pc,       \* "call" before the constructor runs, "done" after
    biome_obj,      \* the Biome the constructor returned: <<>> or <<properties>>
    biome_raised,   \* the ValueError message the constructor raised, or ""
    layer,          \* the stand-alone noise layer (NoLayer before construction)
    noise_ret,      \* the last call on it: its arguments, value and exception
    map_exists,     \* TRUE once BiomeMap.__init__ has returned an object
    biomes,         \* BiomeMap._biomes, the catalog
    noise_maps,     \* BiomeMap._noise_maps: channel -> noise layer
    grid,           \* BiomeMap._grid: grid[y + 1][x + 1], a catalog position or None
    resource_counts,\* ResourceFilter.resource_counts
    total_biomes,   \* ResourceFilter.total_biomes
    dimensions,     \* BiomeMap._dimensions
    position,       \* BiomeMap._position (the two offsets)
    selector_x,     \* NoiseMapSelector.x
    grid_object,    \* identity of the list object bound to BiomeMap._grid
    map_raised,     \* exception out of the last BiomeMap call, "" if none
    seed_draws,     \* random.randint draws made by the map's noise layers
    stats_pc,       \* stand-alone ResourceFilter: its last operation
    stats_biomes,   \* the catalog the cells of its biome_grid refer to
    stats_grid,     \* the biome_grid last handed to update_resource_stats
    stats_counts,   \* its resource_counts
    stats_total,    \* its total_biomes
    stats_drawn,    \* resource type -> percentage of the last draw
    is_visible,     \* LoadingScreen._is_visible
    task_completed, \* LoadingScreen._task_completed
    map_initialized,\* GameScreen._map_initialized
    biome_map,      \* GameScreen._biome_map: None or the BiomeMap of a thread
    threads,        \* thread -> [pc, cells]: position in thread_wrapper and
                    \* cells classified by the generation pass under way
    main_pc,        \* main loop: "frame", or "loading_update" inside update()
    seen,           \* what the main loop last handed to the BiomeMap
    current_state,  \* Game._current_state
    running,        \* Game._running (FALSE once the program ended)
    game_biome_map, \* Game._biome_map: None or a constructed BiomeMap
    screen_size,    \* Game._screen_width, Game._screen_height
    palette,        \* the ColorPalette of the StyleManager
    game_event,     \* the event last taken by Game.handle_events
    game_result,    \* what the screen's handle_event returned for it
    mm_pc,          \* MapManager: "idle", then "constructed" or "raised"
    mm_args,        \* the (width, height, tile_size, biomes) passed to MapManager(...)
    mm_tiles,       \* MapManager._tiles: tiles[y + 1][x + 1] is the tile's biome
    mm_raised,      \* the ValueError message the constructor raised, or ""
    tiles_made,     \* Tile(...) objects constructed so far
    mm_call,        \* the last MapManager._find_matching_biome call and its result
    scenes,         \* SceneManager._scenes: scene name -> registered class (NoClass if none)
    current_scene,  \* SceneManager._current_scene: the instance, NoScene for None
    current_scene_name,\* SceneManager._current_scene_name ("" for None)
    needs_redraw,   \* SceneManager._needs_redraw
    sm_raised,      \* exception out of the last SceneManager call, "" if none
    sm_op,          \* the last SceneManager call: its name and its scene-name argument
    view,           \* BiomeMap view state: _dragging, last_mouse_pos, _hovered_tile and the two checkbox panels
    events_handled  \* events passed to BiomeMap.handle_event so far

findVars == <<find_biomes, find_args, find_pc, find_ret>>
biomeVars == <<biome_args, biome_pc, biome_obj, biome_raised>>
noiseVars == <<layer, noise_ret>>
mapVars == <<map_exists, biomes, noise_maps, grid, resource_counts,
             total_biomes, dimensions, position, selector_x, grid_object,
             map_raised, seed_draws>>
statsVars == <<stats_pc, stats_biomes, stats_grid, stats_counts, stats_total,
               stats_drawn>>
screenVars == <<is_visible, task_completed, map_initialized, biome_map,
                threads, main_pc, seen>>
gameVars == <<current_state, running, game_biome_map, screen_size, palette,
              game_event, game_result>>
managerVars == <<mm_pc, mm_args, mm_tiles, mm_raised, tiles_made, mm_call>>
sceneVars == <<scenes, current_scene, current_scene_name, needs_redraw,
               sm_raised, sm_op>>
viewVars == <<view, events_handled>>
vars == <<findVars, biomeVars, noiseVars, mapVars, statsVars, screenVars,
          gameVars, managerVars, sceneVars, viewVars>>

\* Each specification drives one component; the others stay as constructed.
FindIdle ==
    /\ find_biomes = <<>>
    /\ find_args = [a \in Axes |-> 0]
    /\ find_pc = "idle"
    /\ find_ret = None

BiomeIdle ==
    /\ biome_args = [a \in Axes |-> <<0, 0>>]
    /\ biome_pc = "idle"
    /\ biome_obj = <<>>
    /\ biome_raised = ""

NoCall == [op |-> "none", x |-> 0, y |-> 0, value |-> 0, raised |-> ""]

NoiseIdle ==
    /\ layer = NoLayer
    /\ noise_ret = NoCall

\* No BiomeMap has been constructed.
MapIdle ==
    /\ map_exists = FALSE
    /\ biomes = <<>>
    /\ noise_maps = [c \in Channels |-> NoLayer]
    /\ grid = <<>>
    /\ resource_counts = <<>>
    /\ total_biomes = 0
    /\ dimensions = [grid_width |-> 0, grid_height |-> 0, screen_width |-> 0,
                     screen_height |-> 0, cell_size |-> 0]
    /\ position = [offset_x |-> 0, offset_y |-> 0]
    /\ selector_x = 0
    /\ grid_object = None
    /\ map_raised = ""
    /\ seed_draws = 0

\* No stand-alone ResourceFilter has been constructed.
StatsIdle ==
    /\ stats_pc = "idle"
    /\ stats_biomes = <<>>
    /\ stats_grid = <<>>
    /\ stats_counts = <<>>
    /\ stats_total = 0
    /\ stats_drawn = <<>>

\* A GameScreen as constructed: no map, nothing started, nothing shown.
NotStarted == [pc |-> "unstarted", cells |-> 0]
NothingSeen == [op |-> "none", map |-> None, filling |-> FALSE]
ScreenIdle ==
    /\ is_visible = FALSE
    /\ task_completed = FALSE
    /\ map_initialized = FALSE
    /\ biome_map = None
    /\ threads = [t \in 1..MaxThreads |-> NotStarted]
    /\ main_pc = "frame"
    /\ seen = NothingSeen

\* A pygame event: its type and the one attribute the handlers read (the
\* button under event.pos, the key, or the new window size).
MkEvent(type, arg) == [type |-> type, arg |-> arg]
NoEvent == MkEvent("NOEVENT", "")

\* A Game as constructed: title screen, no map, default palette.
GameIdle ==
    /\ current_state = "TITLE"
    /\ running = TRUE
    /\ game_biome_map = None
    /\ screen_size = WindowSize
    /\ palette = "DARK"
    /\ game_event = NoEvent
    /\ game_result = "None"

NoManagerArgs == [width |-> 0, height |-> 0, tile_size |-> 0, biomes |-> <<>>]
NoFind == [op |-> "none", args |-> [a \in Axes |-> 0], ret |-> None]

\* No MapManager constructed.
ManagerIdle ==
    /\ mm_pc = "idle"
    /\ mm_args = NoManagerArgs
    /\ mm_tiles = <<>>
    /\ mm_raised = ""
    /\ tiles_made = 0
    /\ mm_call = NoFind

\* Names scenes are registered under and the Scene subclasses of ui/screens.
SceneNames == {"title", "options", "game"}
SceneClasses == {"TitleScreen", "OptionsScreen", "GameScreen"}
NoClass == "NoClass"

\* Scene.__init__ for an instance of cls; `id` tells the instance from the
\* one it replaces.
NewSceneKeepsRequest(cls, old) ==
    [cls |-> cls, id |-> 1 - old.id, next_scene |-> old.next_scene,
     data |-> <<>>]
NewScene(cls, old) ==
    [cls |-> cls, id |-> 1 - old.id, next_scene |-> "", data |-> <<>>]
NoScene == [cls |-> NoClass, id |-> 0, next_scene |-> "", data |-> <<>>]

\* A SceneManager as constructed: nothing registered, no scene.
SceneIdle ==
    /\ scenes = [n \in SceneNames |-> NoClass]
    /\ current_scene = NoScene
    /\ current_scene_name = ""
    /\ needs_redraw = TRUE
    /\ sm_raised = ""
    /\ sm_op = [op |-> "none", name |-> ""]

\* A checkbox panel (ResourceFilter, NoiseMapSelector) as constructed:
\* hovered_checkbox (a row, None if none) and the rows whose checkbox has
\* been toggled away from its initial state.
NoPanel == [hovered |-> None, toggled |-> {}]

\* The view of a BiomeMap as constructed; no event handled.
ViewIdle ==
    /\ view = [dragging |-> FALSE, last_mouse_pos |-> <<0, 0>>,
               hovered_tile |-> <<>>, filter |-> NoPanel, selector |-> NoPanel]
    /\ events_handled = 0

notFind == <<biomeVars, noiseVars, mapVars, statsVars, screenVars, gameVars,
             managerVars, sceneVars, viewVars>>
notBiome == <<findVars, noiseVars, mapVars, statsVars, screenVars, gameVars,
              managerVars, sceneVars, viewVars>>
notNoise == <<findVars, biomeVars, mapVars, statsVars, screenVars, gameVars,
              managerVars, sceneVars, viewVars>>
notMap == <<findVars, biomeVars, noiseVars, statsVars, screenVars, gameVars,
            managerVars, sceneVars, viewVars>>
notStats == <<findVars, biomeVars, noiseVars, mapVars, screenVars, gameVars,
              managerVars, sceneVars, viewVars>>
notScreen == <<findVars, biomeVars, noiseVars, mapVars, statsVars, gameVars,
               managerVars, sceneVars, viewVars>>
notGame == <<findVars, biomeVars, noiseVars, mapVars, statsVars, screenVars,
             managerVars, sceneVars, viewVars>>
notManager == <<findVars, biomeVars, noiseVars, mapVars, statsVars,
                screenVars, gameVars, sceneVars, viewVars>>
notScene == <<findVars, biomeVars, noiseVars, mapVars, statsVars, screenVars,
              gameVars, managerVars, viewVars>>
notView == <<findVars, biomeVars, noiseVars, mapVars, statsVars, screenVars,
             gameVars, managerVars, sceneVars>>

\* ------------------------------------------- _find_matching_biome, called
FindInit ==
    /\ find_biomes \in Catalogs
    /\ find_args \in Samples
    /\ find_pc = "call"
    /\ find_ret = None
    /\ BiomeIdle
    /\ NoiseIdle
    /\ MapIdle
    /\ StatsIdle
    /\ ScreenIdle
    /\ GameIdle
    /\ ManagerIdle
    /\ SceneIdle
    /\ ViewIdle

CallFindMatchingBiome ==
    /\ find_pc = "call"
    /\ find_ret' = FindMatchingBiome(find_biomes, find_args)
    /\ find_pc' = "done"
    /\ UNCHANGED <<find_biomes, find_args>>
    /\ UNCHANGED notFind

FindNext == CallFindMatchingBiome

SpecFind == FindInit /\ [][FindNext]_vars

\* ------------------------------------------------------ Biome(...), called
BiomeInit ==
    /\ biome_args \in BiomeArgs
    /\ biome_pc = "call"
    /\ biome_obj = <<>>
    /\ biome_raised = ""
    /\ FindIdle
    /\ NoiseIdle
    /\ MapIdle
    /\ StatsIdle
    /\ ScreenIdle
    /\ GameIdle
    /\ ManagerIdle
    /\ SceneIdle
    /\ ViewIdle

\* Biome.__init__: the fields are stored, then _validate_properties either
\* raises (no object reaches the caller) or returns.
NewBiome ==
    /\ biome_pc = "call"
    /\ LET e == ValidateProperties(biome_args, 1)
       IN  /\ biome_raised' = e
           /\ biome_obj' = IF e = "" THEN <<biome_args>> ELSE <<>>
    /\ biome_pc' = "done"
    /\ UNCHANGED biome_args
    /\ UNCHANGED notBiome

BiomeNext == NewBiome

SpecBiome == BiomeInit /\ [][BiomeNext]_vars

\* ------------------------------------------------- one noise layer, used
\* Arguments a caller may hand to a layer constructor and to get().
DimValues == (0 - 1)..MaxDim
ScaleValues == {0 - 20, 0, 20}
Coords == (0 - 1)..MaxDim

NoiseInit ==
    /\ NoiseIdle
    /\ FindIdle
    /\ BiomeIdle
    /\ MapIdle
    /\ StatsIdle
    /\ ScreenIdle
    /\ GameIdle
    /\ ManagerIdle
    /\ SceneIdle
    /\ ViewIdle

\* <Channel>NoiseLayer.__init__ -> BaseNoiseLayer.__init__: store the
\* arguments, draw the seed, generate the map.  Nothing is validated; the
\* only failure is the ZeroDivisionError out of _generate_noise.
NewNoiseLayer(cls, width, height, scale) ==
    /\ ~layer.exists
    /\ \E seed \in Seeds :
         LET g == GenerateNoise(width, height, scale, seed, NoiseParameters(cls))
         IN  /\ layer' = IF g.raised = ""
                         THEN MkLayer(cls, width, height, scale, seed, g.map)
                         ELSE NoLayer
             /\ noise_ret' = [op |-> "new", x |-> 0, y |-> 0, value |-> 0,
                              raised |-> g.raised]
    /\ UNCHANGED notNoise

\* BaseNoiseLayer.get(x, y)
NoiseGetReseeding(x, y) ==
    /\ layer.exists
    /\ IF ~InBounds(layer, x, y)
       THEN /\ noise_ret' = [op |-> "get", x |-> x, y |-> y, value |-> 0,
                             raised |-> "ValueError"]
            /\ UNCHANGED layer
       ELSE \E seed \in Seeds :
            LET g == GenerateNoise(layer.width, layer.height, layer.scale,
                                   seed, NoiseParameters(layer.cls))
                l == [layer EXCEPT !.seed = seed, !.map = g.map]
                r == Subscript(l.map, x, y)
            IN  /\ layer' = l
                /\ noise_ret' = [op |-> "get", x |-> x, y |-> y,
                                 value |-> r.value, raised |-> r.raised]
    /\ UNCHANGED notNoise
NoiseGet(x, y) ==
    /\ layer.exists
    /\ IF ~InBounds(layer, x, y)
       THEN /\ noise_ret' = [op |-> "get", x |-> x, y |-> y, value |-> 0,
                             raised |-> "ValueError"]
            /\ UNCHANGED layer
       ELSE LET g == GenerateNoise(layer.width, layer.height, layer.scale,
                                   layer.seed, NoiseParameters(layer.cls))
                l == IF ~layer.has_map
                     THEN [layer EXCEPT !.has_map = TRUE, !.map = g.map]
                     ELSE layer
                r == LayerGet(l, x, y)
            IN  /\ layer' = l
                /\ noise_ret' = [op |-> "get", x |-> x, y |-> y,
                                 value |-> r.value, raised |-> r.raised]
    /\ UNCHANGED notNoise

NoiseNext ==
    \/ \E cls \in Channels, width \in DimValues, height \in DimValues,
          scale \in ScaleValues : NewNoiseLayer(cls, width, height, scale)
    \/ \E x \in Coords, y \in Coords : NoiseGet(x, y)

SpecNoise == NoiseInit /\ [][NoiseNext]_vars

\* ------------------------------------------------------- the BiomeMap
\* Window sizes a resize may deliver.
ScreenSizes == { WindowSize, <<801, 601>> }

Init ==
    /\ MapIdle
    /\ FindIdle
    /\ BiomeIdle
    /\ NoiseIdle
    /\ StatsIdle
    /\ ScreenIdle
    /\ GameIdle
    /\ ManagerIdle
    /\ SceneIdle
    /\ ViewIdle

\* _generate_biome_grid on the object's fields: fill the grid in place, then
\* hand it to the resource filter.  A raise leaves the stats as they were.
WithStats(f, st) ==
    [raised |-> f.raised, grid |-> f.grid,
     resource_counts |-> st.resource_counts, total_biomes |-> st.total_biomes]
ThenUpdateStats(cat, f, counts, total) ==
    IF f.raised = ""
    THEN WithStats(f, UpdateResourceStats(cat, f.grid))
    ELSE WithStats(f, [resource_counts |-> counts, total_biomes |-> total])
GenerateBiomeGrid(cat, nm, dims, g, counts, total) ==
    ThenUpdateStats(cat, FillGrid(cat, nm, dims, g, 0), counts, total)

\* BiomeMap.__init__(biomes): dimensions from Config, four freshly seeded
\* layers, the UI components, a grid of None, _generate_biome_grid,
\* _center_map.  Any exception leaves no object behind.
NewBiomeMap(cat) ==
    /\ ~map_exists
    /\ \E seeds \in [Channels -> Seeds] :
         LET dims == [grid_width |-> MapWidth, grid_height |-> MapHeight,
                      screen_width |-> WindowSize[1],
                      screen_height |-> WindowSize[2],
                      cell_size |-> TileSize]
             empty == [y \in Range(dims.grid_height) |->
                          [x \in Range(dims.grid_width) |-> None]]
             size == LayerSize(dims)
         IN  \E gen \in {[c \in Channels |->
                            GenerateNoise(size[1], size[2],
                                          ChannelScale[c], seeds[c],
                                          NoiseParameters(c))]} :
             \E nm \in {[c \in Channels |->
                            MkLayer(c, size[1], size[2],
                                    ChannelScale[c], seeds[c], gen[c].map)]} :
             \E r \in {GenerateBiomeGrid(cat, nm, dims, empty,
                                    [t \in ResourceTypes(cat) |-> 0], 0)} :
             IF \E c \in Channels : gen[c].raised # ""
             THEN /\ map_raised' = "ZeroDivisionError"
                  /\ UNCHANGED <<map_exists, biomes, noise_maps, grid,
                                 resource_counts, total_biomes, dimensions,
                                 position, selector_x, grid_object,
                                 seed_draws>>
             ELSE IF r.raised # ""
             THEN /\ map_raised' = r.raised
                  /\ UNCHANGED <<map_exists, biomes, noise_maps, grid,
                                 resource_counts, total_biomes, dimensions,
                                 position, selector_x, grid_object,
                                 seed_draws>>
             ELSE /\ map_exists' = TRUE
                  /\ biomes' = cat
                  /\ noise_maps' = [c \in Channels |-> LayerAfterGet(nm[c])]
                  /\ grid' = r.grid
                  /\ grid_object' = grid_object + 1
                  /\ seed_draws' = seed_draws + Cardinality(Channels)
                  /\ resource_counts' = r.resource_counts
                  /\ total_biomes' = r.total_biomes
                  /\ dimensions' = dims
                  /\ position' = CenterMap(dims)
                  /\ selector_x' = dims.screen_width - SelectorWidth - Margin
                  /\ map_raised' = ""
    /\ UNCHANGED notMap

\* BiomeMap.update_screen_size(width, height): the screen size, the widget
\* positions, _center_map, _generate_biome_grid.  The layers of __init__
\* stay: no layer is constructed and no seed drawn.
UpdateScreenSizeReseeding(width, height) ==
    /\ map_exists
    /\ \E seeds \in [Channels -> Seeds] :
         LET dims == [dimensions EXCEPT !.screen_width = width,
                                        !.screen_height = height]
             size == LayerSize(dims)
         IN  \E nm \in {[c \in Channels |->
                            MkLayer(c, size[1], size[2], ChannelScale[c],
                                    seeds[c],
                                    GenerateNoise(size[1], size[2],
                                                  ChannelScale[c], seeds[c],
                                                  NoiseParameters(c)).map)]} :
             \E r \in {GenerateBiomeGrid(biomes, nm, dims, grid,
                                          resource_counts, total_biomes)} :
               /\ dimensions' = dims
               /\ selector_x' = width - SelectorWidth - Margin
               /\ position' = CenterMap(dims)
               /\ grid' = r.grid
               /\ resource_counts' = r.resource_counts
               /\ total_biomes' = r.total_biomes
               /\ map_raised' = r.raised
               /\ noise_maps' = nm
               /\ seed_draws' = seed_draws + Cardinality(Channels)
    /\ UNCHANGED <<map_exists, biomes, grid_object>>
    /\ UNCHANGED notMap
UpdateScreenSize(width, height) ==
    /\ map_exists
    /\ LET dims == [dimensions EXCEPT !.screen_width = width,
                                      !.screen_height = height]
       IN  \E r \in {GenerateBiomeGrid(biomes, noise_maps, dims, grid,
                                        resource_counts, total_biomes)} :
           /\ dimensions' = dims
           /\ selector_x' = width - SelectorWidth - Margin
           /\ position' = CenterMap(dims)
           /\ grid' = r.grid
           /\ resource_counts' = r.resource_counts
           /\ total_biomes' = r.total_biomes
           /\ map_raised' = r.raised
    /\ noise_maps' = [c \in Channels |-> LayerAfterGet(noise_maps[c])]
    /\ UNCHANGED <<map_exists, biomes, grid_object, seed_draws>>
    /\ UNCHANGED notMap

Next ==
    \/ \E cat \in Catalogs : NewBiomeMap(cat)
    \/ \E size \in ScreenSizes : UpdateScreenSize(size[1], size[2])

Spec == Init /\ [][Next]_vars

\* ------------------------------------------- ResourceFilter, stand-alone
\* The biome grids a caller may hand to update_resource_stats: no rows, one
\* row of one or two cells, or two rows of one cell; each cell None or a
\* catalog biome.
StatsGrids(cat) ==
    UNION { [1..shape[1] -> [1..shape[2] -> 0..Len(cat)]] :
              shape \in { <<0, 0>>, <<1, 1>>, <<1, 2>>, <<2, 1>> } }

StatsInit ==
    /\ StatsIdle
    /\ FindIdle
    /\ BiomeIdle
    /\ NoiseIdle
    /\ MapIdle
    /\ ScreenIdle
    /\ GameIdle
    /\ ManagerIdle
    /\ SceneIdle
    /\ ViewIdle

\* ResourceFilter.__init__ with the resource types of a catalog.
NewResourceFilter(cat) ==
    /\ stats_pc = "idle"
    /\ stats_pc' = "new"
    /\ stats_biomes' = cat
    /\ stats_counts' = [r \in ResourceTypes(cat) |-> 0]
    /\ stats_total' = 0
    /\ UNCHANGED <<stats_grid, stats_drawn>>
    /\ UNCHANGED notStats

\* ResourceFilter.update_resource_stats(biome_grid)
CallUpdateResourceStats(biome_grid) ==
    /\ stats_pc # "idle"
    /\ \E st \in {UpdateResourceStats(stats_biomes, biome_grid)} :
          /\ stats_counts' = st.resource_counts
          /\ stats_total' = st.total_biomes
    /\ stats_grid' = biome_grid
    /\ stats_pc' = "updated"
    /\ UNCHANGED <<stats_biomes, stats_drawn>>
    /\ UNCHANGED notStats

\* ResourceFilter.draw: the statistics loop, one percentage per type.
DrawStats ==
    /\ stats_pc \in {"new", "updated"}
    /\ stats_drawn' = [r \in ResourceTypes(stats_biomes) |->
                          Percentage(stats_counts[r], stats_total)]
    /\ stats_pc' = "drawn"
    /\ UNCHANGED <<stats_biomes, stats_grid, stats_counts, stats_total>>
    /\ UNCHANGED notStats

StatsNext ==
    \/ \E cat \in Catalogs : NewResourceFilter(cat)
    \/ \E g \in StatsGrids(stats_biomes) : CallUpdateResourceStats(g)
    \/ DrawStats

SpecStats == StatsInit /\ [][StatsNext]_vars

\* ------------------------------ GameScreen, LoadingScreen and its threads
\* The scene manager forwards handle_event, update and draw to the screen
\* from the main loop; each thread started by LoadingScreen.start_task runs
\* thread_wrapper: the task (load, BiomeMap(...), assignment,
\* update_screen_size), then _task_completed = True, then the callback.
\* A thread's BiomeMap is named by the thread's number.
ScreenInit ==
    /\ ScreenIdle
    /\ FindIdle
    /\ BiomeIdle
    /\ NoiseIdle
    /\ MapIdle
    /\ StatsIdle
    /\ GameIdle
    /\ ManagerIdle
    /\ SceneIdle
    /\ ViewIdle

\* Cells one pass of _generate_biome_grid classifies.
GridSize == MapWidth * MapHeight

Outcomes == {"ok", "raise"}
Events == {"VIDEORESIZE", "MOUSEMOTION"}

\* A generation pass over the map of thread m is under way: the loops of
\* _generate_biome_grid have been entered and not left.
Filling(m) == m # None /\ threads[m].pc \in {"fill", "regen"}

\* GameScreen._biome_map after thread t has executed the statement at pc:
\* only the assignment binds it, once BiomeMap(...) has returned.
BoundEarly(current, t, pc) ==
    IF pc \in {"construct", "assign"} THEN t ELSE current
Bound(current, t, pc) == IF pc = "assign" THEN t ELSE current

\* `if self._biome_map and not self._loading_screen.is_visible()`
DrawsMapUnguarded(map, visible) == map # None
DrawsMap(map, visible) == map # None /\ ~visible

\* An uncaught exception ends the thread: thread_wrapper has no handler.
Raised(t) == threads' = [threads EXCEPT ![t].pc = "raised"]

\* `self._biome_loader.load()`
TaskLoad(t, outcome) ==
    /\ threads[t].pc = "load"
    /\ IF outcome = "raise" THEN Raised(t)
       ELSE threads' = [threads EXCEPT ![t].pc = "construct"]
    /\ UNCHANGED <<is_visible, task_completed, map_initialized, biome_map,
                   main_pc, seen>>
    /\ UNCHANGED notScreen

\* BiomeMap(...) up to the grid of None: layers, widgets, empty grid.
TaskConstruct(t, outcome) ==
    /\ threads[t].pc = "construct"
    /\ IF outcome = "raise" THEN Raised(t)
       ELSE threads' = [threads EXCEPT ![t] = [pc |-> "fill", cells |-> 0]]
    /\ biome_map' = Bound(biome_map, t, "construct")
    /\ UNCHANGED <<is_visible, task_completed, map_initialized, main_pc, seen>>
    /\ UNCHANGED notScreen

\* One cell of the constructor's _generate_biome_grid; after the last one
\* the statistics, _center_map, and the constructor returns.
TaskFill(t, outcome) ==
    /\ threads[t].pc = "fill"
    /\ IF outcome = "raise" THEN Raised(t)
       ELSE threads' = [threads EXCEPT ![t] =
                IF threads[t].cells + 1 = GridSize
                THEN [pc |-> "assign", cells |-> GridSize]
                ELSE [pc |-> "fill", cells |-> threads[t].cells + 1]]
    /\ UNCHANGED <<is_visible, task_completed, map_initialized, biome_map,
                   main_pc, seen>>
    /\ UNCHANGED notScreen

\* `self._biome_map = <the BiomeMap constructed>`
TaskAssign(t) ==
    /\ threads[t].pc = "assign"
    /\ biome_map' = Bound(biome_map, t, "assign")
    /\ threads' = [threads EXCEPT ![t].pc = "resize"]
    /\ UNCHANGED <<is_visible, task_completed, map_initialized, main_pc, seen>>
    /\ UNCHANGED notScreen

\* update_screen_size up to its call of _generate_biome_grid.
TaskResize(t) ==
    /\ threads[t].pc = "resize"
    /\ threads' = [threads EXCEPT ![t] = [pc |-> "regen", cells |-> 0]]
    /\ UNCHANGED <<is_visible, task_completed, map_initialized, biome_map,
                   main_pc, seen>>
    /\ UNCHANGED notScreen

\* One cell of that regeneration, written into the grid in place; after the
\* last one the statistics, and the task returns.
TaskRegen(t) ==
    /\ threads[t].pc = "regen"
    /\ threads' = [threads EXCEPT ![t] =
            IF threads[t].cells + 1 = GridSize
            THEN [pc |-> "complete", cells |-> GridSize]
            ELSE [pc |-> "regen", cells |-> threads[t].cells + 1]]
    /\ UNCHANGED <<is_visible, task_completed, map_initialized, biome_map,
                   main_pc, seen>>
    /\ UNCHANGED notScreen

\* `self._task_completed = True`
ThreadComplete(t) ==
    /\ threads[t].pc = "complete"
    /\ task_completed' = TRUE
    /\ threads' = [threads EXCEPT ![t].pc = "callback"]
    /\ UNCHANGED <<is_visible, map_initialized, biome_map, main_pc, seen>>
    /\ UNCHANGED notScreen

\* `callback()`: on_map_generated sets _map_initialized.
ThreadCallback(t) ==
    /\ threads[t].pc = "callback"
    /\ map_initialized' = TRUE
    /\ threads' = [threads EXCEPT ![t].pc = "done"]
    /\ UNCHANGED <<is_visible, task_completed, biome_map, main_pc, seen>>
    /\ UNCHANGED notScreen

\* GameScreen.handle_event: nothing while the loading screen shows; else a
\* VIDEORESIZE regenerates the map on the main thread, and every event is
\* handed to the map.
HandleEvent(event) ==
    /\ main_pc = "frame"
    /\ IF ~is_visible /\ biome_map # None
       THEN seen' = [op |-> event, map |-> biome_map,
                     filling |-> Filling(biome_map)]
       ELSE UNCHANGED seen
    /\ UNCHANGED <<is_visible, task_completed, map_initialized, biome_map,
                   threads, main_pc>>
    /\ UNCHANGED notScreen

\* GameScreen.update, first statement: _initialize_map -> start_task when
\* nothing is initialized and the loading screen is hidden.  The thread
\* started is the lowest-numbered unstarted one.
Update ==
    /\ main_pc = "frame"
    /\ IF ~map_initialized /\ ~is_visible
       THEN \E t \in 1..MaxThreads :
              /\ threads[t].pc = "unstarted"
              /\ \A u \in 1..(t - 1) : threads[u].pc # "unstarted"
              /\ is_visible' = TRUE
              /\ task_completed' = FALSE
              /\ threads' = [threads EXCEPT ![t].pc = "load"]
       ELSE UNCHANGED <<is_visible, task_completed, threads>>
    /\ main_pc' = "loading_update"
    /\ UNCHANGED <<map_initialized, biome_map, seen>>
    /\ UNCHANGED notScreen

\* GameScreen.update, second statement: LoadingScreen.update hides the
\* loading screen once the task is completed.
LoadingUpdateNoHide ==
    /\ main_pc = "loading_update"
    /\ main_pc' = "frame"
    /\ UNCHANGED <<is_visible, task_completed, map_initialized, biome_map,
                   threads, seen>>
    /\ UNCHANGED notScreen
LoadingUpdate ==
    /\ main_pc = "loading_update"
    /\ is_visible' = IF is_visible /\ task_completed THEN FALSE ELSE is_visible
    /\ main_pc' = "frame"
    /\ UNCHANGED <<task_completed, map_initialized, biome_map, threads, seen>>
    /\ UNCHANGED notScreen

\* GameScreen.draw: the map is drawn only when the loading screen is hidden.
Draw ==
    /\ main_pc = "frame"
    /\ IF DrawsMap(biome_map, is_visible)
       THEN seen' = [op |-> "draw", map |-> biome_map,
                     filling |-> Filling(biome_map)]
       ELSE UNCHANGED seen
    /\ UNCHANGED <<is_visible, task_completed, map_initialized, biome_map,
                   threads, main_pc>>
    /\ UNCHANGED notScreen

ScreenNext ==
    \/ \E t \in 1..MaxThreads, outcome \in Outcomes : TaskLoad(t, outcome)
    \/ \E t \in 1..MaxThreads, outcome \in Outcomes : TaskConstruct(t, outcome)
    \/ \E t \in 1..MaxThreads, outcome \in Outcomes : TaskFill(t, outcome)
    \/ \E t \in 1..MaxThreads : TaskAssign(t)
    \/ \E t \in 1..MaxThreads : TaskResize(t)
    \/ \E t \in 1..MaxThreads : TaskRegen(t)
    \/ \E t \in 1..MaxThreads : ThreadComplete(t)
    \/ \E t \in 1..MaxThreads : ThreadCallback(t)
    \/ \E event \in Events : HandleEvent(event)
    \/ Update
    \/ LoadingUpdate
    \/ Draw

SpecScreen == ScreenInit /\ [][ScreenNext]_vars

\* The next statement of thread t's thread_wrapper.
ThreadStep(t) ==
    \/ \E outcome \in Outcomes : TaskLoad(t, outcome)
    \/ \E outcome \in Outcomes : TaskConstruct(t, outcome)
    \/ \E outcome \in Outcomes : TaskFill(t, outcome)
    \/ TaskAssign(t)
    \/ TaskResize(t)
    \/ TaskRegen(t)
    \/ ThreadComplete(t)
    \/ ThreadCallback(t)

\* The same screen with the scheduling the program runs under: a started
\* thread that can take a step eventually takes one (the interpreter
\* switches threads), and the main loop calls update() every frame.
SpecScreenFair ==
    /\ ScreenInit
    /\ [][ScreenNext]_vars
    /\ \A t \in 1..MaxThreads : WF_vars(ThreadStep(t))
    /\ WF_vars(Update)
    /\ WF_vars(LoadingUpdate)

\* ------------------------------------------------- Game (game.py)
GameInit ==
    /\ GameIdle
    /\ FindIdle
    /\ BiomeIdle
    /\ NoiseIdle
    /\ MapIdle
    /\ StatsIdle
    /\ ScreenIdle
    /\ ManagerIdle
    /\ SceneIdle
    /\ ViewIdle

ColorPalette == {"DARK", "LIGHT", "MYSTICAL"}
\* Buttons of the title screen and of the options screen.
TitleButtons == {"Start Game", "Options", "Quit"}
OptionsButtons == ColorPalette \cup {"Back"}

\* Events pygame.event.get() may deliver.  A left MOUSEBUTTONDOWN carries
\* the button of the screen shown that event.pos lies in ("" for none).
GameEvents ==
    { MkEvent("QUIT", "") }
    \cup { MkEvent("VIDEORESIZE", size) : size \in ScreenSizes }
    \cup { MkEvent("MOUSEBUTTONDOWN", b) :
              b \in TitleButtons \cup OptionsButtons \cup {""} }
    \cup { MkEvent("KEYDOWN", k) : k \in {"K_ESCAPE", "K_SPACE"} }
    \cup { MkEvent("MOUSEMOTION", "") }

\* Button.on_click: `self.action()`; the value of the action is dropped and
\* the method returns None.
OnClick(action_value) == "None"

\* OptionsScreen._on_back
OnBack == "title"

\* OptionsScreen.handle_event: the value returned.
OptionsHandleEvent(event) ==
    IF event.type = "MOUSEBUTTONDOWN" /\ event.arg = "Back"
    THEN OnClick(OnBack)
    ELSE "None"

\* BiomeMap.handle_event: the value returned.
MapHandleEvent(event) ==
    IF event.type = "KEYDOWN" /\ event.arg = "K_ESCAPE" THEN "menu" ELSE "None"

\* Game.handle_events for one event of the queue.
HandleEvents(event) ==
    /\ running
    /\ game_event' = event
    /\ IF event.type = "QUIT"
       THEN /\ running' = FALSE
            /\ game_result' = "None"
            /\ UNCHANGED <<current_state, game_biome_map, screen_size, palette>>
       ELSE IF event.type = "VIDEORESIZE"
       THEN \* handle_resize
            /\ screen_size' = event.arg
            /\ game_result' = "None"
            /\ UNCHANGED <<current_state, running, game_biome_map, palette>>
       ELSE IF current_state = "TITLE"
       THEN \* TitleScreen.handle_event
            /\ game_result' = "None"
            /\ IF event.type = "MOUSEBUTTONDOWN" /\ event.arg = "Start Game"
               THEN \* start_game: load() or BiomeMap(...) may raise
                    \E outcome \in Outcomes :
                      /\ current_state' = "GAME"
                      /\ game_biome_map' = IF outcome = "ok" THEN 1 ELSE None
                      /\ running' = (outcome = "ok")
               ELSE IF event.type = "MOUSEBUTTONDOWN" /\ event.arg = "Options"
               THEN \* show_options
                    /\ current_state' = "OPTIONS"
                    /\ UNCHANGED <<running, game_biome_map>>
               ELSE IF event.type = "MOUSEBUTTONDOWN" /\ event.arg = "Quit"
               THEN \* pygame.quit(); sys.exit()
                    /\ running' = FALSE
                    /\ UNCHANGED <<current_state, game_biome_map>>
               ELSE UNCHANGED <<current_state, running, game_biome_map>>
            /\ UNCHANGED <<screen_size, palette>>
       ELSE IF current_state = "OPTIONS"
       THEN /\ palette' = IF /\ event.type = "MOUSEBUTTONDOWN"
                             /\ event.arg \in ColorPalette
                          THEN event.arg ELSE palette
            /\ game_result' = OptionsHandleEvent(event)
            /\ current_state' = IF OptionsHandleEvent(event) = "title"
                                THEN "TITLE" ELSE current_state
            /\ UNCHANGED <<running, game_biome_map, screen_size>>
       ELSE IF game_biome_map # None
       THEN /\ game_result' = MapHandleEvent(event)
            /\ IF MapHandleEvent(event) = "menu"
               THEN \* _reset_to_title
                    /\ current_state' = "TITLE"
                    /\ game_biome_map' = None
               ELSE UNCHANGED <<current_state, game_biome_map>>
            /\ UNCHANGED <<running, screen_size, palette>>
       ELSE /\ game_result' = "None"
            /\ UNCHANGED <<current_state, running, game_biome_map,
                           screen_size, palette>>
    /\ UNCHANGED notGame

GameNext == \E event \in GameEvents : HandleEvents(event)

SpecGame == GameInit /\ [][GameNext]_vars

\* ------------------------------------- MapManager (map/map_manager.py)
ManagerInit ==
    /\ ManagerIdle
    /\ FindIdle
    /\ BiomeIdle
    /\ NoiseIdle
    /\ MapIdle
    /\ StatsIdle
    /\ ScreenIdle
    /\ GameIdle
    /\ SceneIdle
    /\ ViewIdle

\* `if width <= 0 or height <= 0 or tile_size <= 0`
BadDimensionsNoTileSize(width, height, tile_size) ==
    width <= 0 \/ height <= 0
BadDimensions(width, height, tile_size) ==
    width <= 0 \/ height <= 0 \/ tile_size <= 0

\* The ValueError MapManager.__init__ raises for its arguments, "" if none.
ManagerError(width, height, tile_size, cat) ==
    IF BadDimensions(width, height, tile_size)
    THEN "Map dimensions and tile size must be positive"
    ELSE IF Len(cat) = 0
    THEN "At least one biome must be provided"
    ELSE ""

\* MapManager._generate_noise at tile (x, y) for one `base`: pnoise2 at
\* (nx * scale, ny * scale), nx = x / width - 0.5, scale = 50, octaves = 4
\* and the library's default persistence and lacunarity.
MapGenerateNoise(x, y, width, height, base) ==
    Pnoise2((2 * x - width) * 25 * height + base,
            (2 * y - height) * 25 * width, width * height, 4, 5, 20)

\* The four values generate_map passes to _find_matching_biome for tile
\* (x, y): noise + 0.5, not clamped.
TileSample(x, y, width, height) ==
    [height |-> MapGenerateNoise(x, y, width, height, 0) + HalfUnit,
     humidity |-> MapGenerateNoise(x, y, width, height, 1) + HalfUnit,
     temperature |-> MapGenerateNoise(x, y, width, height, 2) + HalfUnit,
     mystical |-> MapGenerateNoise(x, y, width, height, 3) + HalfUnit]

\* MapManager.generate_map: the rows of tiles; choices[y][x] is what
\* random.choice draws for the tile if its loop falls through.
GenerateMap(width, height, cat, choices) ==
    [y \in Range(height) |-> [x \in Range(width) |->
        MapFindMatchingBiome(cat, TileSample(x - 1, y - 1, width, height),
                             choices[y][x])]]

\* MapManager(width, height, tile_size, biomes)
NewMapManager(width, height, tile_size, cat) ==
    /\ mm_pc = "idle"
    /\ mm_args' = [width |-> width, height |-> height,
                   tile_size |-> tile_size, biomes |-> cat]
    /\ mm_raised' = ManagerError(width, height, tile_size, cat)
    /\ IF ManagerError(width, height, tile_size, cat) # ""
       THEN /\ mm_pc' = "raised"
            /\ UNCHANGED <<mm_tiles, tiles_made>>
       ELSE \E choices \in [Range(height) -> [Range(width) -> 1..Len(cat)]] :
              /\ mm_pc' = "constructed"
              /\ mm_tiles' = GenerateMap(width, height, cat, choices)
              /\ tiles_made' = tiles_made + width * height
    /\ UNCHANGED mm_call
    /\ UNCHANGED notManager

\* Values generate_map may pass: noise + 0.5 spans [-0.5, 1.5].
MapSamples ==
    { [height |-> a, humidity |-> b, temperature |-> b, mystical |-> b] :
        a, b \in {0 - HalfUnit, 0, Unit, Unit + HalfUnit} }

\* The first call of _find_matching_biome on the constructed manager.
CallMapFindMatchingBiome(s) ==
    /\ mm_pc = "constructed"
    /\ mm_call.op = "none"
    /\ \E choice \in 1..Len(mm_args.biomes) :
         mm_call' = [op |-> "done", args |-> s,
                     ret |-> MapFindMatchingBiome(mm_args.biomes, s, choice)]
    /\ UNCHANGED <<mm_pc, mm_args, mm_tiles, mm_raised, tiles_made>>
    /\ UNCHANGED notManager

ManagerNext ==
    \/ \E width \in {0 - 1, 0, 1, 2}, height \in {0 - 1, 0, 1},
          tile_size \in {0 - TileSize, 0, TileSize}, cat \in Catalogs :
            NewMapManager(width, height, tile_size, cat)
    \/ \E s \in MapSamples : CallMapFindMatchingBiome(s)

SpecManager == ManagerInit /\ [][ManagerNext]_vars

\* ------------------------------ SceneManager (ui/core/scene_manager.py)
SceneInit ==
    /\ SceneIdle
    /\ FindIdle
    /\ BiomeIdle
    /\ NoiseIdle
    /\ MapIdle
    /\ StatsIdle
    /\ ScreenIdle
    /\ GameIdle
    /\ ManagerIdle
    /\ ViewIdle

\* Scene data dictionaries: the empty one and a non-empty one.
SceneData == { <<>>, <<1>> }

\* Scene.get_scene_data / Scene.set_scene_data: each stores or returns a
\* copy, a dictionary of the same contents.
SetSceneData(scene, data) == [scene EXCEPT !.data = data]
GetSceneData(scene) == scene.data

\* SceneManager.set_scene(name, data), called while `scene` is the current
\* scene.
DoSetScene(scene, name, data) ==
    IF scenes[name] = NoClass
    THEN /\ sm_raised' = "ValueError"
         /\ current_scene' = scene
         /\ UNCHANGED <<current_scene_name, needs_redraw>>
    ELSE /\ sm_raised' = ""
         /\ current_scene' =
               IF data # <<>>
               THEN SetSceneData(NewScene(scenes[name], scene), data)
               ELSE NewScene(scenes[name], scene)
         /\ current_scene_name' = name
         /\ needs_redraw' = TRUE

\* register_scene(name, scene_class)
RegisterSceneOverwrite(name, cls) ==
    /\ sm_op' = [op |-> "register_scene", name |-> name]
    /\ sm_raised' = ""
    /\ scenes' = [scenes EXCEPT ![name] = cls]
    /\ UNCHANGED <<current_scene, current_scene_name, needs_redraw>>
    /\ UNCHANGED notScene
RegisterScene(name, cls) ==
    /\ sm_op' = [op |-> "register_scene", name |-> name]
    /\ IF scenes[name] # NoClass
       THEN /\ sm_raised' = "ValueError"
            /\ UNCHANGED scenes
       ELSE /\ sm_raised' = ""
            /\ scenes' = [scenes EXCEPT ![name] = cls]
    /\ UNCHANGED <<current_scene, current_scene_name, needs_redraw>>
    /\ UNCHANGED notScene

\* set_scene(name, data), called by the application.
SetScene(name, data) ==
    /\ sm_op' = [op |-> "set_scene", name |-> name]
    /\ DoSetScene(current_scene, name, data)
    /\ UNCHANGED scenes
    /\ UNCHANGED notScene

\* Buttons of the three scenes (event.pos of a left click lies in one, "" if
\* in none).
SceneButtons == {"Start Game", "Options", "Quit", "Back", "Menu", ""}
SceneEvents ==
    { MkEvent("MOUSEBUTTONDOWN", b) : b \in SceneButtons }
    \cup { MkEvent("MOUSEMOTION", "") }

\* The scene's handle_event: the _next_scene it leaves.  `loading` is
\* whether the GameScreen's loading screen is visible.
SceneRequest(scene, event, loading) ==
    IF event.type # "MOUSEBUTTONDOWN" THEN scene.next_scene
    ELSE IF scene.cls = "TitleScreen" /\ event.arg = "Start Game" THEN "game"
    ELSE IF scene.cls = "TitleScreen" /\ event.arg = "Options" THEN "options"
    ELSE IF scene.cls = "OptionsScreen" /\ event.arg = "Back" THEN "title"
    ELSE IF scene.cls = "GameScreen" /\ event.arg = "Menu" /\ ~loading
    THEN "title"
    ELSE scene.next_scene

\* SceneManager.handle_event(event)
SceneHandleEvent(event) ==
    IF current_scene.cls = NoClass
    THEN /\ sm_op' = [op |-> "handle_event", name |-> ""]
         /\ sm_raised' = ""
         /\ UNCHANGED <<scenes, current_scene, current_scene_name,
                        needs_redraw>>
         /\ UNCHANGED notScene
    ELSE IF /\ current_scene.cls = "TitleScreen"
            /\ event = MkEvent("MOUSEBUTTONDOWN", "Quit")
    THEN \* _on_quit_clicked: pygame.quit(); sys.exit()
         /\ sm_op' = [op |-> "handle_event", name |-> ""]
         /\ sm_raised' = "SystemExit"
         /\ UNCHANGED <<scenes, current_scene, current_scene_name,
                        needs_redraw>>
         /\ UNCHANGED notScene
    ELSE \E loading \in BOOLEAN :
           LET handled == [current_scene EXCEPT !.next_scene =
                              SceneRequest(current_scene, event, loading)]
               next_scene == handled.next_scene
           IN  /\ sm_op' = [op |-> "handle_event", name |-> next_scene]
               /\ IF next_scene # ""
                  THEN DoSetScene(handled, next_scene, GetSceneData(handled))
                  ELSE /\ sm_raised' = ""
                       /\ current_scene' = handled
                       /\ UNCHANGED <<current_scene_name, needs_redraw>>
               /\ UNCHANGED scenes
               /\ UNCHANGED notScene

\* SceneManager.draw(surface)
SceneDraw ==
    /\ sm_op' = [op |-> "draw", name |-> ""]
    /\ sm_raised' = ""
    /\ needs_redraw' = IF current_scene.cls # NoClass THEN FALSE
                       ELSE needs_redraw
    /\ UNCHANGED <<scenes, current_scene, current_scene_name>>
    /\ UNCHANGED notScene

SceneNext ==
    \/ \E name \in SceneNames, cls \in SceneClasses : RegisterScene(name, cls)
    \/ \E name \in SceneNames, data \in SceneData : SetScene(name, data)
    \/ \E event \in SceneEvents : SceneHandleEvent(event)
    \/ SceneDraw

SpecScene == SceneInit /\ [][SceneNext]_vars

\* --------------------------------- BiomeMap.handle_event (biome_map.py)
ViewInit ==
    /\ ViewIdle
    /\ MapIdle
    /\ FindIdle
    /\ BiomeIdle
    /\ NoiseIdle
    /\ StatsIdle
    /\ ScreenIdle
    /\ GameIdle
    /\ ManagerIdle
    /\ SceneIdle

CheckboxSize == 20
Spacing == 30

\* Events of the map screen: Escape, left button down and up, mouse motion
\* and the wheel.  The positions lie on the first resource checkbox, on the
\* first noise checkbox of a 1280 wide window, and at the window's centre.
ViewEvents ==
    { [type |-> "KEYDOWN", pos |-> <<0, 0>>, y |-> 0],
      [type |-> "MOUSEBUTTONUP", pos |-> <<640, 360>>, y |-> 0] }
    \cup { [type |-> "MOUSEBUTTONDOWN", pos |-> p, y |-> 0] :
              p \in {<<25, 55>>, <<640, 360>>} }
    \cup { [type |-> "MOUSEMOTION", pos |-> p, y |-> 0] :
              p \in {<<25, 55>>, <<1075, 55>>, <<640, 360>>} }
    \cup { [type |-> "MOUSEWHEEL", pos |-> <<0, 0>>, y |-> y] :
              y \in {0 - 1, 1} }

\* ResourceFilter.handle_event and NoiseMapSelector.handle_event for a panel
\* at (x, y) with n rows: motion sets hovered_checkbox to the first row
\* whose checkbox holds the position, a left click toggles the hovered row.
CheckboxHandleEvent(panel, x, y, n, event) ==
    LET holds(i) ==
            /\ x + 10 <= event.pos[1]
            /\ event.pos[1] < x + 10 + CheckboxSize
            /\ y + 40 + (i - 1) * Spacing <= event.pos[2]
            /\ event.pos[2] < y + 40 + (i - 1) * Spacing + CheckboxSize
        rows == { i \in 1..n : holds(i) }
    IN  IF event.type = "MOUSEMOTION"
        THEN [panel EXCEPT !.hovered =
                 IF rows = {} THEN None
                 ELSE CHOOSE i \in rows : \A j \in rows : i <= j]
        ELSE IF event.type = "MOUSEBUTTONDOWN" /\ panel.hovered # None
        THEN [panel EXCEPT !.toggled =
                 IF panel.hovered \in @ THEN @ \ {panel.hovered}
                 ELSE @ \cup {panel.hovered}]
        ELSE panel

\* BiomeMap._get_tile_at_pos: int() truncates towards zero; <<>> is None.
GetTileAtPos(pos, offsets, dims) ==
    LET trunc(a, b) == IF a >= 0 THEN a \div b ELSE 0 - ((0 - a) \div b)
        x == trunc(pos[1] - offsets.offset_x, dims.cell_size)
        y == trunc(pos[2] - offsets.offset_y, dims.cell_size)
    IN  IF 0 <= x /\ x < dims.grid_width /\ 0 <= y /\ y < dims.grid_height
        THEN <<x, y>> ELSE <<>>

\* BiomeMap._handle_zoom: the new cell_size, the product and the quotient
\* by 1.1 rounded to whole pixels.
HandleZoom(cell_size, y) ==
    IF y > 0 THEN Min((cell_size * 11 + 5) \div 10, TileSize * 4)
    ELSE Max((cell_size * 20 + 11) \div 22, TileSize \div 4)

\* What BiomeMap.handle_event(event) does to the view, the cell size and
\* the offsets.
HandleEventView(event) ==
    /\ map_exists
    /\ events_handled < MaxEvents
    /\ events_handled' = events_handled + 1
    /\ LET filter == CheckboxHandleEvent(view.filter, Margin, Margin,
                          Cardinality(ResourceTypes(biomes)), event)
           selector == CheckboxHandleEvent(view.selector, selector_x, Margin,
                          Cardinality(Channels), event)
           v == [view EXCEPT !.filter = filter, !.selector = selector]
       IN  IF event.type = "MOUSEBUTTONDOWN"
           THEN /\ view' = [v EXCEPT !.dragging = TRUE,
                                     !.last_mouse_pos = event.pos]
                /\ UNCHANGED <<dimensions, position>>
           ELSE IF event.type = "MOUSEBUTTONUP"
           THEN /\ view' = [v EXCEPT !.dragging = FALSE]
                /\ UNCHANGED <<dimensions, position>>
           ELSE IF event.type = "MOUSEMOTION" /\ view.dragging
           THEN /\ position' =
                     [offset_x |-> position.offset_x
                                     + event.pos[1] - view.last_mouse_pos[1],
                      offset_y |-> position.offset_y
                                     + event.pos[2] - view.last_mouse_pos[2]]
                /\ view' = [v EXCEPT !.last_mouse_pos = event.pos]
                /\ UNCHANGED dimensions
           ELSE IF event.type = "MOUSEMOTION"
           THEN /\ view' = [v EXCEPT !.hovered_tile =
                               GetTileAtPos(event.pos, position, dimensions)]
                /\ UNCHANGED <<dimensions, position>>
           ELSE IF event.type = "MOUSEWHEEL"
           THEN /\ dimensions' = [dimensions EXCEPT !.cell_size =
                                     HandleZoom(dimensions.cell_size, event.y)]
                /\ position' = CenterMap(dimensions')
                /\ view' = v
           ELSE \* KEYDOWN of K_ESCAPE: `return "menu"`
                /\ view' = v
                /\ UNCHANGED <<dimensions, position>>

\* BiomeMap.handle_event(event)
BiomeMapHandleEventRecounting(event) ==
    /\ HandleEventView(event)
    /\ total_biomes' = IF view'.filter.toggled # view.filter.toggled
                       THEN 0 ELSE total_biomes
    /\ UNCHANGED <<map_exists, biomes, noise_maps, grid, resource_counts,
                   selector_x, grid_object, map_raised, seed_draws>>
    /\ UNCHANGED <<findVars, biomeVars, noiseVars, statsVars, screenVars,
                   gameVars, managerVars, sceneVars>>
BiomeMapHandleEvent(event) ==
    /\ HandleEventView(event)
    /\ UNCHANGED <<map_exists, biomes, noise_maps, grid, resource_counts,
                   total_biomes, selector_x, grid_object, map_raised,
                   seed_draws>>
    /\ UNCHANGED <<findVars, biomeVars, noiseVars, statsVars, screenVars,
                   gameVars, managerVars, sceneVars>>

\* A map of two biomes with different resources, its layers seeded 0; the
\* window is resized and events arrive in any order.
ViewNext ==
    \/ \E cat \in { c \in Catalogs : /\ Len(c) = 2
                                      /\ c[1].name = "Plains"
                                      /\ c[2].name \in {"Peaks", "Meadow"} } :
          /\ NewBiomeMap(cat)
          /\ \A c \in Channels : noise_maps'[c].seed = 0
    \/ \E size \in ScreenSizes : UpdateScreenSize(size[1], size[2])
    \/ \E event \in ViewEvents : BiomeMapHandleEvent(event)

SpecView == ViewInit /\ [][ViewNext]_vars

\* ------------------------------------------------ classification claims
\* Largest number of matching axes any biome of the catalog attains.
BestHits(cat, s) ==
    CHOOSE n \in 0..4 :
        /\ \A i \in 1..Len(cat) : AxisHits(cat[i], s) <= n
        /\ n = 0 \/ \E i \in 1..Len(cat) : AxisHits(cat[i], s) = n

\* First catalog position attaining n matching axes.
FirstWith(cat, s, n) ==
    CHOOSE i \in 1..Len(cat) :
        /\ AxisHits(cat[i], s) = n
        /\ \A j \in 1..(i - 1) : AxisHits(cat[j], s) # n

SameRanges(a, b) ==
    /\ a.height = b.height
    /\ a.humidity = b.humidity
    /\ a.temperature = b.temperature
    /\ a.mystical = b.mystical

\* C1: _find_matching_biome returns the first biome in catalog order among
\* those attaining the maximum axis score when that maximum is at least 0.5
\* (two of the four axes), and None otherwise.
C1_FirstOfBestOrNone ==
    find_pc = "done" =>
        LET n == BestHits(find_biomes, find_args)
        IN  find_ret = IF 2 * n >= 4
                       THEN FirstWith(find_biomes, find_args, n)
                       ELSE None

\* C1 witness: two biomes tie at a score of exactly 0.5 and the first wins.
C1_Witness ==
    /\ find_pc = "done"
    /\ Len(find_biomes) = 2
    /\ AxisHits(find_biomes[1], find_args) = 2
    /\ AxisHits(find_biomes[2], find_args) = 2
    /\ find_ret = 1

\* C3: of two catalog biomes with identical ranges on all four axes the
\* later-indexed one is never the result of a classification.
C3_TieNeverPicksLater ==
    find_pc = "done" =>
        \A i, j \in 1..Len(find_biomes) :
            (i < j /\ SameRanges(find_biomes[i], find_biomes[j]))
                => find_ret # j

\* C3 witness: a catalog with two identically ranged biomes, the earlier
\* one selected.
C3_Witness ==
    /\ find_pc = "done"
    /\ \E i, j \in 1..Len(find_biomes) :
          /\ i < j
          /\ SameRanges(find_biomes[i], find_biomes[j])
          /\ find_ret = i

\* ------------------------------------------------------- grid claims
\* The value stored for cell (x, y) of a channel (Python's map[x][y]).
StoredValue(c, x, y) == noise_maps[c].map[x + 1][y + 1]

\* The axes on which the values stored for cell (x, y) lie in the ranges of
\* catalog biome b.
MatchedAxes(b, x, y) ==
    { a \in Axes :
        LET v == StoredValue(CASE a = "height" -> "Height"
                               [] a = "humidity" -> "Humidity"
                               [] a = "temperature" -> "Temperature"
                               [] a = "mystical" -> "Mystical", x, y)
        IN  biomes[b][a][1] <= v /\ v <= biomes[b][a][2] }

GridCells == (0..(MapWidth - 1)) \X (0..(MapHeight - 1))
CellOf(x, y) == grid[y + 1][x + 1]

\* C2: in every state in which a BiomeMap exists, every non-null grid cell
\* holds a biome matching at least 2 of the 4 values sampled at that cell.
C2_AssignedCellsHalfMatch ==
    map_exists =>
        \A y \in 0..(Len(grid) - 1) : \A x \in 0..(Len(grid[y + 1]) - 1) :
            CellOf(x, y) # None
                => Cardinality(MatchedAxes(CellOf(x, y), x, y)) * 4 >= 2 * 4

\* C2 witness: after a resize regenerated the grid, one cell is assigned on
\* exactly 2 axes and another cell is unmatched.
C2_Witness ==
    /\ map_exists
    /\ dimensions.screen_width # WindowSize[1]
    /\ \E c \in GridCells :
          /\ CellOf(c[1], c[2]) # None
          /\ Cardinality(MatchedAxes(CellOf(c[1], c[2]), c[1], c[2])) = 2
    /\ \E c \in GridCells : CellOf(c[1], c[2]) = None

\* C4 (as claimed): no BiomeMap is ever constructed over an empty catalog.
C4_EmptyCatalogRaises ==
    ~(map_exists /\ Len(biomes) = 0)

\* C10: with a catalog of one biome whose ranges are [0,1] on all four
\* axes, every cell of the grid is assigned that biome, on all 4 axes.
C10_FullRangeBiomeEverywhere ==
    (/\ map_exists
     /\ Len(biomes) = 1
     /\ \A a \in Axes : biomes[1][a] = <<0, Unit>>)
        => \A c \in GridCells :
              /\ CellOf(c[1], c[2]) = 1
              /\ MatchedAxes(1, c[1], c[2]) = Axes

\* C10 witness: such a map exists and one of its cells sampled both ends of
\* [0,1].
C10_Witness ==
    /\ map_exists
    /\ Len(biomes) = 1
    /\ \A a \in Axes : biomes[1][a] = <<0, Unit>>
    /\ \E c \in GridCells :
          /\ CellOf(c[1], c[2]) = 1
          /\ \E k1, k2 \in Channels :
                /\ StoredValue(k1, c[1], c[2]) = 0
                /\ StoredValue(k2, c[1], c[2]) = Unit

\* ------------------------------------------------------- Biome claims
\* C9: constructing a Biome raises whenever min > max on some axis or some
\* bound lies outside [0,1], so every Biome that exists has
\* 0 <= min <= max <= 1 on each axis.
C9_InvalidBiomeRaises ==
    biome_pc = "done" =>
        /\ (\E a \in Axes :
              \/ biome_args[a][1] > biome_args[a][2]
              \/ \E k \in 1..2 : biome_args[a][k] < 0 \/ biome_args[a][k] > Unit)
              => (biome_raised # "" /\ biome_obj = <<>>)
        /\ \A k \in 1..Len(biome_obj) : \A a \in Axes :
              /\ 0 <= biome_obj[k][a][1]
              /\ biome_obj[k][a][1] <= biome_obj[k][a][2]
              /\ biome_obj[k][a][2] <= Unit

\* C9 witness: one rejected call (min > max inside [0,1] on the last axis
\* only) and, separately, accepted ones exist; this is the rejected one.
C9_Witness ==
    /\ biome_pc = "done"
    /\ biome_raised # ""
    /\ biome_obj = <<>>
    /\ biome_args["mystical"] = <<Unit, 0>>
    /\ \A a \in Axes \ {"mystical"} : biome_args[a] = <<0, Unit>>

\* ------------------------------------------------------- noise layer claims
\* C5: for every channel and every in-bounds (x, y), get(x, y) returns a
\* value of [0,1]: every stored cell is in range and so is every value a
\* get returned.
C5_GetInUnitInterval ==
    /\ layer.exists =>
          \A x \in 0..(layer.width - 1), y \in 0..(layer.height - 1) :
              LET r == Subscript(layer.map, x, y)
              IN  r.raised = "" => (0 <= r.value /\ r.value <= Unit)
    /\ (noise_ret.op = "get" /\ noise_ret.raised = "")
          => (0 <= noise_ret.value /\ noise_ret.value <= Unit)

\* C5 witness: a get returned 0 from a cell whose raw noise was below -0.5
\* (the clamp acted).
C5_Witness ==
    /\ layer.exists
    /\ noise_ret.op = "get"
    /\ noise_ret.raised = ""
    /\ noise_ret.value = 0
    /\ LET p == NoiseParameters(layer.cls)
       IN  2 * Pnoise2(noise_ret.x + layer.seed, noise_ret.y + layer.seed,
                       layer.scale * p.scale_factor, p.octaves,
                       p.persistence, p.lacunarity) < 0 - Unit

\* C6: get is pure: no get changes the layer (its seed and its map), every
\* value returned is the stored cell, and a get repeated with the same
\* coordinates returns the same value.
C6_GetIsPure ==
    /\ [][noise_ret'.op = "get" => layer' = layer]_vars
    /\ [][(noise_ret.op = "get" /\ noise_ret'.op = "get"
            /\ noise_ret'.x = noise_ret.x /\ noise_ret'.y = noise_ret.y)
              => noise_ret' = noise_ret]_vars
    /\ []((noise_ret.op = "get" /\ noise_ret.raised = "")
            => noise_ret.value = layer.map[noise_ret.x + 1][noise_ret.y + 1])

\* C6 witness: a get returned a value from a layer with more than one cell.
C6_Witness ==
    /\ layer.exists
    /\ layer.width > 1
    /\ layer.height > 1
    /\ noise_ret.op = "get"
    /\ noise_ret.raised = ""
    /\ noise_ret.x = 1
    /\ noise_ret.y = 1

\* C7: get(x, y) raises the out-of-bounds ValueError exactly when x is
\* outside [0, width) or y is outside [0, height); in bounds it returns
\* without raising.
C7_GetBounds ==
    noise_ret.op = "get" =>
        IF /\ 0 <= noise_ret.x /\ noise_ret.x < layer.width
           /\ 0 <= noise_ret.y /\ noise_ret.y < layer.height
        THEN noise_ret.raised = ""
        ELSE noise_ret.raised = "ValueError"

\* C7 witness: an in-bounds get at the far corner of a non-square layer
\* returned.
C7_Witness ==
    /\ layer.exists
    /\ layer.width # layer.height
    /\ noise_ret.op = "get"
    /\ noise_ret.x = layer.width - 1
    /\ noise_ret.y = layer.height - 1
    /\ noise_ret.raised = ""

\* C8 (as claimed): no noise layer exists whose width, height or scale is
\* non-positive.
C8_NoInvalidLayer ==
    layer.exists => (layer.width > 0 /\ layer.height > 0 /\ layer.scale > 0)

\* ------------------------------------------------ two-biome height split
\* Number of axes of sample s lying in the closed range of biome b, counted
\* from the ranges themselves.
AxesInRange(b, s) ==
    Cardinality({ a \in Axes : b[a][1] <= s[a] /\ s[a] <= b[a][2] })

\* The catalog [A, B]: A has height [0, 0.5], B has height [0.5, 1], both
\* have [0, 1] on the three other axes.
IsHeightSplit(cat) ==
    /\ Len(cat) = 2
    /\ cat[1].height = <<0, HalfUnit>>
    /\ cat[2].height = <<HalfUnit, Unit>>
    /\ \A i \in 1..2 : \A a \in Axes \ {"height"} : cat[i][a] = <<0, Unit>>

\* C11: with the catalog [A, B] of IsHeightSplit, a sample whose height is
\* strictly below 0.5 scores A = 4/4 and B = 3/4 and is classified A; one
\* whose height is strictly above 0.5 scores A = 3/4 and B = 4/4 and is
\* classified B; whatever the three other values are.
C11_HeightSplit ==
    (find_pc = "done" /\ IsHeightSplit(find_biomes)) =>
        /\ find_args.height < HalfUnit =>
              /\ AxesInRange(find_biomes[1], find_args) * 4 = 4 * ScoreDen
              /\ AxesInRange(find_biomes[2], find_args) * 4 = 3 * ScoreDen
              /\ find_ret = 1
        /\ find_args.height > HalfUnit =>
              /\ AxesInRange(find_biomes[1], find_args) * 4 = 3 * ScoreDen
              /\ AxesInRange(find_biomes[2], find_args) * 4 = 4 * ScoreDen
              /\ find_ret = 2

\* C11 witness: a sample just above 0.5 in height, at the ends of [0,1] on
\* other axes, was classified B.
C11_Witness ==
    /\ find_pc = "done"
    /\ IsHeightSplit(find_biomes)
    /\ find_args.height = HalfUnit + 1
    /\ find_args.humidity = 0
    /\ find_args.temperature = Unit
    /\ find_ret = 2

\* ------------------------------------------------ resource statistics
\* Cells of a grid g (rows of catalog positions or None) as (row, column).
CellsOf(g) == IF Len(g) = 0 THEN {} ELSE (1..Len(g)) \X (1..Len(g[1]))
AllNull(g) == \A rc \in CellsOf(g) : g[rc[1]][rc[2]] = None

\* Cells of the map's grid holding a biome, and those holding a biome of
\* resource type r.
MatchedCells == { c \in GridCells : CellOf(c[1], c[2]) # None }
CellsWithResource(r) ==
    { c \in MatchedCells : biomes[CellOf(c[1], c[2])].resource_type = r }

\* C12: whenever a BiomeMap exists (after construction and after each
\* update_screen_size) the statistics describe the current grid: one count
\* per resource type of the catalog, equal to the number of cells whose
\* biome has that type; the total equal to the number of non-null cells;
\* the percentage equal to count / total * 100, computed without exception.
\* With the single all-[0,1] biome the count is W * H and the percentage 100.
C12_StatsDescribeGrid ==
    map_exists =>
        /\ DOMAIN resource_counts = ResourceTypes(biomes)
        /\ total_biomes = Cardinality(MatchedCells)
        /\ \A r \in ResourceTypes(biomes) :
              LET p == Percentage(resource_counts[r], total_biomes)
              IN  /\ resource_counts[r] = Cardinality(CellsWithResource(r))
                  /\ p.raised = ""
                  /\ total_biomes > 0
                       => p.num * total_biomes = resource_counts[r] * 100 * p.den
                  /\ (Len(biomes) = 1 /\ \A a \in Axes : biomes[1][a] = <<0, Unit>>)
                       => /\ resource_counts[r] = MapWidth * MapHeight
                          /\ p.num = 100 * p.den

\* C12 witness: after a resize, a grid with both unmatched and matched
\* cells, the total counting the matched ones only.
C12_Witness ==
    /\ map_exists
    /\ dimensions.screen_width # WindowSize[1]
    /\ MatchedCells # GridCells
    /\ MatchedCells # {}
    /\ total_biomes = Cardinality(MatchedCells)
    /\ \E r \in ResourceTypes(biomes) : resource_counts[r] = total_biomes

\* C13: aggregating a grid whose cells are all None gives count 0 for every
\* resource type and total 0, and drawing then prints 0% for every type
\* with no exception (no division by zero).
C13_AllNullGridZeroPercent ==
    (stats_pc \in {"updated", "drawn"} /\ AllNull(stats_grid)) =>
        /\ stats_total = 0
        /\ \A r \in ResourceTypes(stats_biomes) : stats_counts[r] = 0
        /\ stats_pc = "drawn" =>
              \A r \in ResourceTypes(stats_biomes) :
                  /\ stats_drawn[r].raised = ""
                  /\ stats_drawn[r].num = 0

\* C13 witness: a filter over two resource types drew the statistics of a
\* grid of two None cells.
C13_Witness ==
    /\ stats_pc = "drawn"
    /\ Cardinality(ResourceTypes(stats_biomes)) = 2
    /\ Len(stats_grid) = 1
    /\ Len(stats_grid[1]) = 2
    /\ AllNull(stats_grid)
    /\ \A r \in ResourceTypes(stats_biomes) : stats_drawn[r].num = 0

\* ------------------------------------------------ game screen claims
\* C14: under every interleaving of the threads with the main loop's
\* handle_event, update and draw, nothing the main loop draws or hands an
\* event to is a BiomeMap with a generation pass under way.
C14_NoPartialGridObserved ==
    seen.op \in {"draw"} \cup Events => ~seen.filling

\* C14 witness: the main loop drew the map of a second thread, started in
\* the window between the first thread's completion flag and its callback.
C14_Witness ==
    /\ seen.op = "draw"
    /\ seen.map = 2
    /\ threads[1].pc = "done"
    /\ threads[2].pc \in {"callback", "done"}

\* The constructor of thread t's BiomeMap has returned: every cell of its
\* grid has been classified once.
Constructed(t) ==
    threads[t].pc \in {"assign", "resize", "regen", "complete", "callback", "done"}

\* C15: a generation whose loading or map construction raised has published
\* nothing, and the BiomeMap the screen holds (the one drawing and event
\* handling reach) is always one whose construction completed.
C15_AllOrNothing ==
    /\ \A t \in 1..MaxThreads : threads[t].pc = "raised" => biome_map # t
    /\ biome_map # None => Constructed(biome_map)
    /\ seen.op # "none" => Constructed(seen.map)

\* C15 witness: a construction raised with its grid half filled; the screen
\* holds no map and the main loop has been handed none.
C15_Witness ==
    /\ threads[1].pc = "raised"
    /\ threads[1].cells > 0
    /\ threads[1].cells < GridSize
    /\ biome_map = None
    /\ seen = NothingSeen
    /\ is_visible
    /\ main_pc = "frame"

\* ------------------------------------------------ regeneration claims
\* C16 (as claimed): a resize binds a new grid object to the map instead of
\* overwriting the cells of the one it has.
C16_ResizeMakesNewGrid ==
    [][(map_exists /\ dimensions' # dimensions)
          => grid_object' # grid_object]_vars

\* C17: classification leaves its inputs alone: no step taken on an
\* existing map (each one a regeneration) changes the catalog or any of the
\* four noise fields, and the fields a construction stores are the ones
\* generated from their seeds.
C17_InputsReadOnly ==
    /\ [][map_exists => (biomes' = biomes /\ noise_maps' = noise_maps)]_vars
    /\ [](map_exists =>
            \A c \in Channels :
                noise_maps[c].map =
                    GenerateNoise(noise_maps[c].width, noise_maps[c].height,
                                  noise_maps[c].scale, noise_maps[c].seed,
                                  NoiseParameters(c)).map)

\* C17 witness: a resize regenerated the grid of a two-biome map with
\* assigned cells.
C17_Witness ==
    /\ map_exists
    /\ dimensions.screen_width # WindowSize[1]
    /\ Len(biomes) = 2
    /\ total_biomes > 0

\* C18: the four noise fields have the grid's (width, height), so every
\* get(x, y) of a classification pass is in bounds: none raises, and no
\* BiomeMap call ends in an exception.
C18_SamplesInBounds ==
    /\ map_raised = ""
    /\ map_exists =>
          \A c \in Channels :
              /\ noise_maps[c].width = dimensions.grid_width
              /\ noise_maps[c].height = dimensions.grid_height
              /\ \A x \in 0..(dimensions.grid_width - 1),
                    y \in 0..(dimensions.grid_height - 1) :
                     LayerGet(noise_maps[c], x, y).raised = ""

\* C18 witness: a non-square map was regenerated and the far corner of
\* each field is readable.
C18_Witness ==
    /\ map_exists
    /\ map_raised = ""
    /\ dimensions.screen_width # WindowSize[1]
    /\ dimensions.grid_width # dimensions.grid_height
    /\ \A c \in Channels :
          LayerGet(noise_maps[c], dimensions.grid_width - 1,
                   dimensions.grid_height - 1).raised = ""

\* ------------------------------------------------ normalization claims
\* The raw pnoise2 value behind cell (x, y) of layer l.
RawAt(l, x, y) ==
    LET p == NoiseParameters(l.cls)
    IN  Pnoise2(x + l.seed, y + l.seed, l.scale * p.scale_factor,
                p.octaves, p.persistence, p.lacunarity)

\* C19: the value get(x, y) returns is f(v) = clamp((2v + 1) / 2, 0, 1) of
\* the raw value v of the cell, and nothing more: 0 for v <= -0.5, 1 for
\* v >= 0.5, v + 0.5 in between; f is monotone; the (v + 1) / 2 mapping is
\* not applied on top.
C19_SingleTransform ==
    /\ (noise_ret.op = "get" /\ noise_ret.raised = "") =>
          LET v == RawAt(layer, noise_ret.x, noise_ret.y)
          IN  noise_ret.value =
                  IF v <= 0 - HalfUnit THEN 0
                  ELSE IF v >= HalfUnit THEN Unit
                  ELSE v + HalfUnit
    /\ \A v1, v2 \in Raws :
          v1 <= v2 => TransformNoiseValue(v1) <= TransformNoiseValue(v2)

\* C19 witness: a get returned v + 0.5 for a raw value strictly between 0
\* and 0.5, where (v + 1) / 2 would differ.
C19_Witness ==
    /\ layer.exists
    /\ noise_ret.op = "get"
    /\ noise_ret.raised = ""
    /\ RawAt(layer, noise_ret.x, noise_ret.y) = 1
    /\ noise_ret.value = HalfUnit + 1

\* The presets of the four channels as claimed (persistence, lacunarity and
\* scale_factor in tenths).
ClaimedParameters ==
    [Height |-> [octaves |-> 2, persistence |-> 8, lacunarity |-> 20,
                 scale_factor |-> 10],
     Humidity |-> [octaves |-> 4, persistence |-> 5, lacunarity |-> 20,
                   scale_factor |-> 10],
     Temperature |-> [octaves |-> 4, persistence |-> 5, lacunarity |-> 20,
                      scale_factor |-> 36],
     Mystical |-> [octaves |-> 6, persistence |-> 3, lacunarity |-> 20,
                   scale_factor |-> 90]]

\* C20 (as claimed): every layer is generated with the claimed presets of
\* its channel, the coordinate divisor being scale * scale_factor.
C20_ChannelPresets ==
    layer.exists =>
        /\ NoiseParameters(layer.cls) = ClaimedParameters[layer.cls]
        /\ layer.map = GenerateNoise(layer.width, layer.height, layer.scale,
                                     layer.seed,
                                     ClaimedParameters[layer.cls]).map

\* ------------------------------------------------ resize and reseeding
\* C21 (as claimed): every resize of an existing BiomeMap rebuilds the four
\* noise fields, drawing their seeds afresh.
C21_ResizeReseeds ==
    [][(map_exists /\ dimensions' # dimensions)
          => seed_draws' > seed_draws]_vars

\* C21 (amended): a resize of an existing BiomeMap draws no seed and keeps
\* the four noise fields as they are, so reclassifying yields the same grid
\* and the same statistics.
C21_ResizeKeepsSeeds ==
    [][(map_exists /\ dimensions' # dimensions)
          => /\ seed_draws' = seed_draws
             /\ \A c \in Channels :
                   /\ noise_maps'[c].seed = noise_maps[c].seed
                   /\ noise_maps'[c].map = noise_maps[c].map
             /\ grid' = grid
             /\ resource_counts' = resource_counts
             /\ total_biomes' = total_biomes]_vars

\* C21 witness: a resized map whose fields still carry the seeds drawn at
\* construction, two of them different.
C21_Witness ==
    /\ map_exists
    /\ dimensions.screen_width # WindowSize[1]
    /\ seed_draws = Cardinality(Channels)
    /\ noise_maps["Height"].seed # noise_maps["Humidity"].seed
    /\ total_biomes > 0

\* ------------------------------------------------ Game state machine
\* C22 (as claimed): a left click on the Back button taken in the OPTIONS
\* state makes OptionsScreen.handle_event return "title" and moves the
\* game to TITLE.
C22_BackReturnsToTitle ==
    [][(/\ running
        /\ current_state = "OPTIONS"
        /\ game_event' = MkEvent("MOUSEBUTTONDOWN", "Back"))
          => (game_result' = "title" /\ current_state' = "TITLE")]_vars

\* ------------------------------------------------------- MapManager
\* C23: MapManager(...) raises ValueError exactly when width, height or
\* tile_size is not positive or the biome list is empty, and it raises
\* before any tile is generated: no Tile was constructed and _tiles holds
\* nothing.
C23_ConstructorValidates ==
    mm_pc # "idle" =>
        LET invalid == \/ mm_args.width <= 0
                       \/ mm_args.height <= 0
                       \/ mm_args.tile_size <= 0
                       \/ mm_args.biomes = <<>>
        IN  /\ invalid <=> (mm_pc = "raised" /\ mm_raised # "")
            /\ invalid => (tiles_made = 0 /\ mm_tiles = <<>>)
            /\ ~invalid => (/\ mm_pc = "constructed"
                            /\ tiles_made = mm_args.width * mm_args.height)

\* The constructor raised for a tile size of zero alone.
C23_Witness ==
    /\ mm_pc = "raised"
    /\ mm_args.width > 0
    /\ mm_args.height > 0
    /\ mm_args.tile_size = 0
    /\ Len(mm_args.biomes) > 0
    /\ tiles_made = 0

\* C24: MapManager._find_matching_biome returns the first biome of the
\* catalog whose four ranges all contain the values; when no biome fully
\* matches it returns some member of the catalog; it never returns null.
C24_FirstMatchOrMember ==
    mm_call.op = "done" =>
        LET cat == mm_args.biomes
            s == mm_call.args
            full == { i \in 1..Len(cat) :
                        \A a \in Axes : InRange(cat[i][a], s[a]) }
        IN  /\ mm_call.ret \in 1..Len(cat)
            /\ mm_call.ret # None
            /\ full # {} => /\ mm_call.ret \in full
                            /\ \A i \in full : mm_call.ret <= i

\* The first biome of the catalog does not match the values, the second
\* does, and the call returned the second.
C24_Witness ==
    /\ mm_call.op = "done"
    /\ Len(mm_args.biomes) = 2
    /\ \E a \in Axes : ~InRange(mm_args.biomes[1][a], mm_call.args[a])
    /\ \A a \in Axes : InRange(mm_args.biomes[2][a], mm_call.args[a])
    /\ mm_call.ret = 2

\* C25: when some biome of the catalog matches the values on all four axes,
\* BiomeMap._find_matching_biome returns the biome the first-exact-match
\* scan of MapManager returns; and Biome.matches is true of a biome exactly
\* when its score is 1.0 (all four axes hit).
C25_SameAsFirstExactMatch ==
    find_pc = "done" =>
        /\ \A i \in 1..Len(find_biomes) :
              Matches(find_biomes[i], find_args)
                 <=> (AxisHits(find_biomes[i], find_args) = ScoreDen)
        /\ MapFindLoop(find_biomes, find_args, 1) # None
              => find_ret = MapFindLoop(find_biomes, find_args, 1)

\* Both biomes of the catalog match the values fully and the call returned
\* the first.
C25_Witness ==
    /\ find_pc = "done"
    /\ Len(find_biomes) = 2
    /\ Matches(find_biomes[1], find_args)
    /\ Matches(find_biomes[2], find_args)
    /\ find_ret = 1

\* ------------------------------------------------ GameScreen, generation
\* C26 (as claimed): GameScreen starts map generation at most once (the
\* model has no reset): once update() has started a generation, no later
\* update() calls _initialize_map again, so at most one generation thread
\* is ever started.
C26_StartsAtMostOnce ==
    Cardinality({ t \in 1..MaxThreads : threads[t].pc # "unstarted" }) <= 1

\* C27: once the task of a start_task has returned, with the worker thread
\* and the per-frame update() scheduled fairly, the callback is eventually
\* run and the loading screen eventually becomes not visible; and a hidden
\* loading screen stays hidden until the next start_task.
C27_EventuallyHidden ==
    /\ \A t \in 1..MaxThreads :
          /\ (threads[t].pc = "complete") ~> (threads[t].pc = "done")
          /\ (threads[t].pc = "complete") ~> ~is_visible
    /\ [][(~is_visible /\ is_visible')
             => \E t \in 1..MaxThreads :
                   threads[t].pc = "unstarted" /\ threads'[t].pc = "load"]_vars

\* The first task returned, its callback ran and update() hid the loading
\* screen; no second generation was started.
C27_Witness ==
    /\ threads[1].pc = "done"
    /\ threads[2].pc = "unstarted"
    /\ task_completed
    /\ map_initialized
    /\ ~is_visible

\* ----------------------------------------------------- SceneManager
\* C28: when the current scene has a next scene pending after it handled
\* the event, and a class is registered under that name, handle_event
\* replaces the scene in that same call by a new instance of that class,
\* sets current_scene_name to the name and the redraw flag to true, and the
\* new scene holds a copy of the old scene's data and no pending next
\* scene; a handle_event in which no next scene is pending keeps the scene.
C28_TransitionInSameCall ==
    [][sm_op'.op = "handle_event" =>
          /\ (sm_op'.name # "" /\ scenes[sm_op'.name] # NoClass)
                => /\ current_scene'.cls = scenes[sm_op'.name]
                   /\ current_scene'.id # current_scene.id
                   /\ current_scene_name' = sm_op'.name
                   /\ needs_redraw'
                   /\ current_scene'.data = current_scene.data
                   /\ current_scene'.next_scene = ""
          /\ sm_op'.name = ""
                => /\ current_scene'.id = current_scene.id
                   /\ current_scene'.cls = current_scene.cls
                   /\ current_scene_name' = current_scene_name]_vars

\* A handle_event in which the scene asked for "game" has put a GameScreen
\* holding data in its place, with the redraw flag set.
C28_Witness ==
    /\ sm_op = [op |-> "handle_event", name |-> "game"]
    /\ scenes["game"] = "GameScreen"
    /\ current_scene.cls = "GameScreen"
    /\ current_scene_name = "game"
    /\ current_scene.data = <<1>>
    /\ current_scene.next_scene = ""
    /\ needs_redraw
    /\ sm_raised = ""

\* C29: register_scene with a name already registered raises ValueError
\* and leaves the registry unchanged; set_scene with a name that is not
\* registered raises ValueError and leaves the current scene, its name and
\* the redraw flag unchanged.
C29_RejectsInvalidNames ==
    [][/\ (sm_op'.op = "register_scene" /\ scenes[sm_op'.name] # NoClass)
            => (sm_raised' = "ValueError" /\ scenes' = scenes)
       /\ (sm_op'.op = "set_scene" /\ scenes[sm_op'.name] = NoClass)
            => /\ sm_raised' = "ValueError"
               /\ current_scene' = current_scene
               /\ current_scene_name' = current_scene_name
               /\ needs_redraw' = needs_redraw]_vars

\* A second register_scene of "title" was refused: the class first
\* registered is still the one under that name, and a scene is current.
C29_Witness ==
    /\ sm_op = [op |-> "register_scene", name |-> "title"]
    /\ sm_raised = "ValueError"
    /\ scenes["title"] = "TitleScreen"
    /\ current_scene.cls = "TitleScreen"
    /\ ~needs_redraw

\* ------------------------------------------- BiomeMap, events and grid
\* C30: no event passed to BiomeMap.handle_event changes the grid, the four
\* noise fields or the resource statistics; a step that changes any of them
\* is the constructor or update_screen_size.
C30_EventsKeepClassification ==
    [][events_handled' # events_handled
          => /\ grid' = grid
             /\ noise_maps' = noise_maps
             /\ resource_counts' = resource_counts
             /\ total_biomes' = total_biomes
             /\ grid_object' = grid_object]_vars

\* A resized map has handled a motion onto the first resource checkbox, the
\* click that toggled it and a wheel turn that zoomed in; its cells are
\* still counted.
C30_Witness ==
    /\ map_exists
    /\ dimensions.screen_width # WindowSize[1]
    /\ view.filter.toggled = {1}
    /\ view.dragging
    /\ dimensions.cell_size > TileSize
    /\ total_biomes > 0
    /\ events_handled >= 3

====
